---- MODULE Spec2Model ----
(***************************************************************************)
(* Model of vmbase/src/memory/shared.rs: the MemoryTracker (region and     *)
(* MMIO catalogs over a page table), the MMIO-guard fault handler, and the *)
(* shared-memory pool fed by a MemorySharer.                               *)
(*                                                                         *)
(* Addresses are byte addresses (usize).  A MemoryRange is the record      *)
(* [start, end] of a core::ops::Range<usize>; nothing forces start <= end. *)
(***************************************************************************)
EXTENDS Integers, Sequences, FiniteSets, TLC

VARIABLES
    total,          \* MemoryTracker.total
    regions,        \* MemoryTracker.regions: ArrayVec<[MemoryRegion; CAPACITY]>
    mmio_regions,   \* MemoryTracker.mmio_regions: ArrayVec<[MemoryRange; MMIO_CAPACITY]>
    mmio_range,     \* MemoryTracker.mmio_range
    pt,             \* MemoryTracker.page_table: page base -> set of attribute flags
    mmio_guard,     \* get_mmio_guard().is_some(): the hypervisor offers the MMIO guard
    guard_mapped,   \* hypervisor side: pages currently MMIO-guard mapped
    op,             \* the operation called last
    arg,            \* its arguments, as a tuple of numbers
    result,         \* what it returned
    pt_calls,       \* the page-table operations it issued, in order
    ext_calls,      \* the hypervisor, heap and pool calls it issued, in order
    shared_pool,    \* SHARED_POOL: unset, or the free lists of the frame allocator
    shared_memory,  \* SHARED_MEMORY: None, or the MemorySharer
    mem_sharer,     \* get_mem_sharer().is_some(): the hypervisor offers memory sharing
    heap,           \* the global allocator: the blocks alloc_zeroed handed out
    shares,         \* address -> number of share calls made with it
    unshares,       \* address -> number of unshare calls made with it
    dropped,        \* the MemorySharer dropped last, as its drop left it
    buffers,        \* the buffers alloc_shared returned that were not deallocated
    refills,        \* how many times refill ran
    pool_init,      \* the operation that set SHARED_POOL, "none" while it is unset
    payload_range,  \* MemoryTracker.payload_range: Option<MemoryRange>
    fd_pool,        \* fd_server, FdService.fd_pool: BTreeMap<i32, FdConfig>
    files,          \* fd_server: descriptor -> whether it is open, and the bytes of its file
    reply,          \* fd_server: the value the last RPC call returned with Ok
    scenario,       \* how many calls of the concrete scenario were made so far, in order
    pool_lock,      \* the context holding the lock of SHARED_POOL's allocator, 0 when free
    sharer_lock,    \* the context holding the SpinMutex of SHARED_MEMORY, 0 when free
    pc,             \* context -> where it stands inside a shared-pool function
    sharer_slot,    \* SHARED_MEMORY by identity: 0 for None, else the number of the Sharer
    local,          \* context -> the Sharer it refills through or has taken out, 0 for none
    pool_set,       \* whether SHARED_POOL is set, as the contexts see it
    created         \* how many Sharers were constructed

tracker_vars == <<total, regions, mmio_regions, mmio_range, pt, mmio_guard, guard_mapped>>
call_vars == <<op, arg, result, pt_calls, ext_calls>>
shared_vars ==
    <<shared_pool, shared_memory, mem_sharer, heap, shares, unshares, dropped, buffers, refills,
      pool_init>>
fd_vars == <<fd_pool, files, reply>>
lock_vars == <<pool_lock, sharer_lock, pc, sharer_slot, local, pool_set, created>>
vars == <<tracker_vars, call_vars, shared_vars, scenario, payload_range, fd_vars, lock_vars>>

----------------------------------------------------------------------------
(* Constants of the program and of the platform *)

\* CAPACITY one larger than the catalog the claims describe
CAPACITY_plus_one == 5 + 1

CAPACITY == 5

MMIO_CAPACITY == 5

\* MMIO_GUARD_GRANULE_SIZE, the 4 KiB page of page_4kb_of
PAGE_SIZE == 4096
\* usize is modelled 16 bits wide: usize::MAX + 1
WORD == 2 ^ 16

----------------------------------------------------------------------------
(* Ranges: core::ops::Range<usize> and crate::util::RangeExt *)

Range(s, e) == [start |-> s, end |-> e]

\* RangeExt::is_within: self is a sub-range of other
is_within(self, other) == other.start <= self.start /\ self.end <= other.end

\* RangeExt::overlaps: the two half-open intervals intersect
overlaps(self, other) == self.start < other.end /\ other.start < self.end

\* Range::len(): 0 for an empty or inverted range
range_len(r) == IF r.start < r.end THEN r.end - r.start ELSE 0

----------------------------------------------------------------------------
(* Results: Ok(range) / Ok(()) / Err(MemoryTrackerError) / a panic *)

NoRange == Range(0, 0)
Ok(r) == [tag |-> "Ok", err |-> "None", range |-> r]
OkUnit == Ok(NoRange)
Err(e) == [tag |-> "Err", err |-> e, range |-> NoRange]
Panic(msg) == [tag |-> "Panic", err |-> msg, range |-> NoRange]

\* A panic or abort ends the program: nothing runs after it.  Nor does anything
\* run on a MemoryTracker that was dropped.
Running == result.tag # "Panic" /\ op # "drop"

----------------------------------------------------------------------------
(* The page table (external collaborator): one leaf entry per 4 KiB page *)

\* The pages the model's page table covers.
Pages == {16 * 256 * n : n \in {1, 2, 3, 4, 9, 10, 11}}

Unmapped == {}
RODATA == {"VALID", "READ_ONLY"}
DATA_DBM == {"VALID", "READ_ONLY", "DBM"}
DEVICE_LAZY == {"MMIO_LAZY_MAP_FLAG", "DEVICE"}
DEVICE == {"MMIO_LAZY_MAP_FLAG", "DEVICE", "VALID"}

\* page_4kb_of(addr)
page_4kb_of(addr) == addr - (addr % PAGE_SIZE)

\* The pages a VaRange touches (the page table works on whole pages).
PagesOf(r) == {p \in Pages : p < r.end /\ r.start < p + PAGE_SIZE}

\* PageTable::map_*: every page of the range gets the given attributes.
map_range(table, r, attrs) == [p \in Pages |-> IF p \in PagesOf(r) THEN attrs ELSE table[p]]

PtCall(name, r) == <<name, r.start, r.end>>

\* A descriptor as a modify_range visitor sees it: its flags, and whether it is a
\* leaf entry (is_leaf_pte) or a table entry on the way down to one.
Descriptor(flags, leaf) == [flags |-> flags, leaf |-> leaf]

\* PageTable::modify_range over one page: the table entry above it, then its leaf.
Walk(table, page) == << Descriptor({"VALID", "TABLE_OR_PAGE"}, FALSE), Descriptor(table[page], TRUE) >>

----------------------------------------------------------------------------
(* MemoryTracker *)

MemoryRegion(r, t) == [range |-> r, mem_type |-> t]

\* check without its overlap test
check_no_overlap(region) ==
    IF ~is_within(region.range, total) THEN "OutOfRange"
    ELSE IF Len(regions) = CAPACITY THEN "Full"
    ELSE "Ok"

\* check that looks at the capacity first
check_full_first(region) ==
    IF Len(regions) = CAPACITY THEN "Full"
    ELSE IF ~is_within(region.range, total) THEN "OutOfRange"
    ELSE IF \E i \in 1..Len(regions) : overlaps(region.range, regions[i].range) THEN "Overlaps"
    ELSE "Ok"

\* MemoryTracker::check
check(region) ==
    IF ~is_within(region.range, total) THEN "OutOfRange"
    ELSE IF \E i \in 1..Len(regions) : overlaps(region.range, regions[i].range) THEN "Overlaps"
    ELSE IF Len(regions) = CAPACITY THEN "Full"
    ELSE "Ok"

\* The calls of the concrete scenario, in order.
ScenarioCalls ==
    << <<"alloc_range_mut", <<\H1000, \H2000>> >>,
       <<"alloc_range", <<\H1800, \H2800>> >>,
       <<"map_mmio_range", <<\H9000, \H9100>> >>,
       <<"map_mmio_range", <<\H90F0, \H9200>> >>,
       <<"shrink", <<\H1000, \H3000>> >>,
       <<"shrink", <<\H1000, \H1800>> >> >>

\* The scenario goes on when the call is its next one and the page table did not
\* fail; any other call leaves it (-1).
ScenarioStep(o, a, res) ==
    IF /\ scenario >= 0
       /\ scenario < Len(ScenarioCalls)
       /\ ScenarioCalls[scenario + 1] = <<o, a>>
       /\ res.err # "FailedToMap"
    THEN scenario + 1
    ELSE -1

\* What every call records about itself.
Called(o, a, res, ptc, hyc) ==
    /\ op' = o
    /\ arg' = a
    /\ result' = res
    /\ pt_calls' = ptc
    /\ ext_calls' = hyc
    /\ scenario' = ScenarioStep(o, a, res)
    /\ payload_range' = payload_range
    /\ UNCHANGED fd_vars
    /\ UNCHANGED lock_vars

\* MemoryTracker::add, after a successful page-table mapping
add(o, a, region, ptc, table) ==
    IF Len(regions) >= CAPACITY
    THEN /\ Called(o, a, Err("Full"), ptc, <<>>)
         /\ pt' = table
         /\ UNCHANGED <<total, regions, mmio_regions, mmio_range, mmio_guard, guard_mapped>>
    ELSE /\ regions' = Append(regions, region)
         /\ Called(o, a, Ok(regions'[Len(regions')].range), ptc, <<>>)
         /\ pt' = table
         /\ UNCHANGED <<total, mmio_regions, mmio_range, mmio_guard, guard_mapped>>

\* get_va_range widens the range to whole pages; aarch64_paging refuses to map a
\* region whose end then lies before its start (MapError::RegionBackwards), which
\* alloc_range* return as FailedToMap.
RegionBackwards(r) ==
    r.end + ((PAGE_SIZE - (r.end % PAGE_SIZE)) % PAGE_SIZE) < page_4kb_of(r.start)

\* The common body of alloc_range and alloc_range_mut: check, map, add.
alloc_region(o, a, r, mem_type, map_name, attrs) ==
    LET region == MemoryRegion(r, mem_type)
        c == check(region)
        ptc == <<PtCall(map_name, r)>>
    IN  IF c # "Ok"
        THEN /\ Called(o, a, Err(c), <<>>, <<>>)
             /\ UNCHANGED tracker_vars
        ELSE \/ /\ Called(o, a, Err("FailedToMap"), ptc, <<>>)
                /\ UNCHANGED tracker_vars
             \/ /\ ~RegionBackwards(r)
                /\ add(o, a, region, ptc, map_range(pt, r, attrs))

\* alloc_range that maps before it checks
alloc_range_maps_first(r) ==
    /\ Running
    /\ UNCHANGED shared_vars
    /\ LET c == check(MemoryRegion(r, "ReadOnly"))
           a == <<r.start, r.end>>
           ptc == <<PtCall("map_rodata", r)>>
       IN  IF c # "Ok"
           THEN /\ Called("alloc_range", a, Err(c), ptc, <<>>)
                /\ pt' = map_range(pt, r, RODATA)
                /\ UNCHANGED <<total, regions, mmio_regions, mmio_range, mmio_guard, guard_mapped>>
           ELSE add("alloc_range", a, MemoryRegion(r, "ReadOnly"), ptc, map_range(pt, r, RODATA))

\* MemoryTracker::alloc_range
alloc_range(r) ==
    /\ Running
    /\ UNCHANGED shared_vars
    /\ alloc_region("alloc_range", <<r.start, r.end>>, r, "ReadOnly", "map_rodata", RODATA)

\* MemoryTracker::alloc_range_mut
alloc_range_mut(r) ==
    /\ Running
    /\ UNCHANGED shared_vars
    /\ alloc_region("alloc_range_mut", <<r.start, r.end>>, r, "ReadWrite", "map_data_dbm", DATA_DBM)

\* base + size.get() on usize: an overflow panics where overflow checks are compiled
\* in and wraps where they are not.
AddOutcomes(base, size) ==
    IF base + size < WORD THEN {[panic |-> FALSE, sum |-> base + size]}
    ELSE {[panic |-> TRUE, sum |-> 0], [panic |-> FALSE, sum |-> (base + size) % WORD]}

\* MemoryTracker::alloc
alloc(base, size) ==
    /\ Running
    /\ UNCHANGED shared_vars
    /\ \E o \in AddOutcomes(base, size) :
          IF o.panic
          THEN /\ Called("alloc", <<base, size>>, Panic("attempt to add with overflow"), <<>>, <<>>)
               /\ UNCHANGED tracker_vars
          ELSE alloc_region("alloc", <<base, size>>, Range(base, o.sum),
                            "ReadOnly", "map_rodata", RODATA)

\* MemoryTracker::alloc_mut
alloc_mut(base, size) ==
    /\ Running
    /\ UNCHANGED shared_vars
    /\ \E o \in AddOutcomes(base, size) :
          IF o.panic
          THEN /\ Called("alloc_mut", <<base, size>>, Panic("attempt to add with overflow"), <<>>, <<>>)
               /\ UNCHANGED tracker_vars
          ELSE alloc_region("alloc_mut", <<base, size>>, Range(base, o.sum),
                            "ReadWrite", "map_data_dbm", DATA_DBM)

\* shrink_check refusing a range that ends where total ends
shrink_check_strict(r) ==
    IF r.start # total.start THEN "DifferentBaseAddress"
    ELSE IF total.end <= r.end THEN "SizeTooLarge"
    ELSE IF ~(\A i \in 1..Len(regions) : is_within(regions[i].range, r)) THEN "SizeTooSmall"
    ELSE "Ok"

\* MemoryTracker::shrink, its three checks in order
shrink_check(r) ==
    IF r.start # total.start THEN "DifferentBaseAddress"
    ELSE IF total.end < r.end THEN "SizeTooLarge"
    ELSE IF ~(\A i \in 1..Len(regions) : is_within(regions[i].range, r)) THEN "SizeTooSmall"
    ELSE "Ok"

\* shrink that replaces total before it looks at the regions
shrink_assigns_first(r) ==
    /\ Running
    /\ UNCHANGED shared_vars
    /\ LET c == shrink_check(r)
       IN  /\ total' = IF c \in {"Ok", "SizeTooSmall"} THEN r ELSE total
           /\ Called("shrink", <<r.start, r.end>>, IF c = "Ok" THEN OkUnit ELSE Err(c), <<>>, <<>>)
           /\ UNCHANGED <<regions, mmio_regions, mmio_range, pt, mmio_guard, guard_mapped>>

\* MemoryTracker::shrink
shrink(r) ==
    /\ Running
    /\ UNCHANGED shared_vars
    /\ LET c == shrink_check(r)
       IN  IF c # "Ok"
           THEN /\ Called("shrink", <<r.start, r.end>>, Err(c), <<>>, <<>>)
                /\ UNCHANGED tracker_vars
           ELSE /\ total' = r
                /\ Called("shrink", <<r.start, r.end>>, OkUnit, <<>>, <<>>)
                /\ UNCHANGED <<regions, mmio_regions, mmio_range, pt, mmio_guard, guard_mapped>>

\* check_mmio without its overlap test
check_mmio_no_overlap(r) ==
    IF ~is_within(r, mmio_range) THEN "OutOfRange"
    ELSE IF Len(mmio_regions) = MMIO_CAPACITY THEN "Full"
    ELSE "Ok"

\* MemoryTracker::map_mmio_range, its three checks in order
check_mmio(r) ==
    IF ~is_within(r, mmio_range) THEN "OutOfRange"
    ELSE IF \E i \in 1..Len(mmio_regions) : overlaps(r, mmio_regions[i]) THEN "Overlaps"
    ELSE IF Len(mmio_regions) = MMIO_CAPACITY THEN "Full"
    ELSE "Ok"

\* map_mmio_range that maps the device range at once whatever the guard capability
map_mmio_range_eager(r) ==
    /\ Running
    /\ UNCHANGED shared_vars
    /\ LET a == <<r.start, r.end>>
           c == check_mmio(r)
           ptc == <<PtCall("map_device", r)>>
       IN  IF c # "Ok"
           THEN /\ Called("map_mmio_range", a, Err(c), <<>>, <<>>)
                /\ UNCHANGED tracker_vars
           ELSE \/ /\ Called("map_mmio_range", a, Err("FailedToMap"), ptc, <<>>)
                   /\ UNCHANGED tracker_vars
                \/ /\ pt' = map_range(pt, r, DEVICE)
                   /\ mmio_regions' = Append(mmio_regions, r)
                   /\ Called("map_mmio_range", a, OkUnit, ptc, <<>>)
                   /\ UNCHANGED <<total, regions, mmio_range, mmio_guard, guard_mapped>>

\* map_mmio_range that records the range before it maps it
map_mmio_range_push_first(r) ==
    /\ Running
    /\ UNCHANGED shared_vars
    /\ LET a == <<r.start, r.end>>
           c == check_mmio(r)
           name == IF mmio_guard THEN "map_device_lazy" ELSE "map_device"
           attrs == IF mmio_guard THEN DEVICE_LAZY ELSE DEVICE
           ptc == <<PtCall(name, r)>>
       IN  IF c # "Ok"
           THEN /\ Called("map_mmio_range", a, Err(c), <<>>, <<>>)
                /\ UNCHANGED tracker_vars
           ELSE /\ mmio_regions' = Append(mmio_regions, r)
                /\ \/ /\ Called("map_mmio_range", a, Err("FailedToMap"), ptc, <<>>)
                      /\ pt' = pt
                   \/ /\ Called("map_mmio_range", a, OkUnit, ptc, <<>>)
                      /\ pt' = map_range(pt, r, attrs)
                /\ UNCHANGED <<total, regions, mmio_range, mmio_guard, guard_mapped>>

\* MemoryTracker::map_mmio_range
map_mmio_range(r) ==
    /\ Running
    /\ UNCHANGED shared_vars
    /\ LET a == <<r.start, r.end>>
           c == check_mmio(r)
           name == IF mmio_guard THEN "map_device_lazy" ELSE "map_device"
           attrs == IF mmio_guard THEN DEVICE_LAZY ELSE DEVICE
           ptc == <<PtCall(name, r)>>
       IN  IF c # "Ok"
           THEN /\ Called("map_mmio_range", a, Err(c), <<>>, <<>>)
                /\ UNCHANGED tracker_vars
           ELSE \/ /\ Called("map_mmio_range", a, Err("FailedToMap"), ptc, <<>>)
                   /\ UNCHANGED tracker_vars
                \/ IF Len(mmio_regions) >= MMIO_CAPACITY
                   THEN /\ Called("map_mmio_range", a, Err("Full"), ptc, <<>>)
                        /\ pt' = map_range(pt, r, attrs)
                        /\ UNCHANGED <<total, regions, mmio_regions, mmio_range,
                                       mmio_guard, guard_mapped>>
                   ELSE /\ pt' = map_range(pt, r, attrs)
                        /\ mmio_regions' = Append(mmio_regions, r)
                        /\ Called("map_mmio_range", a, OkUnit, ptc, <<>>)
                        /\ UNCHANGED <<total, regions, mmio_range, mmio_guard, guard_mapped>>

\* verify_lazy_mapped_block that only looks for the lazy-MMIO marker
verify_lazy_mapped_block_marker_only(desc) ==
    IF ~desc.leaf THEN TRUE
    ELSE "MMIO_LAZY_MAP_FLAG" \in desc.flags

\* verify_lazy_mapped_block: TRUE for Ok(()), FALSE for Err(())
verify_lazy_mapped_block(desc) ==
    IF ~desc.leaf THEN TRUE
    ELSE "MMIO_LAZY_MAP_FLAG" \in desc.flags /\ "VALID" \notin desc.flags

\* handle_mmio_fault that installs the device mapping before the guard-map call
handle_mmio_fault_map_first(addr) ==
    /\ Running
    /\ UNCHANGED shared_vars
    /\ LET page_start == page_4kb_of(addr)
           page_range == Range(page_start, page_start + PAGE_SIZE)
           walk == Walk(pt, page_start)
           verify == PtCall("modify_range", page_range)
           map == PtCall("map_device", page_range)
           guard_map == <<"mmio_guard_map", page_start>>
       IN  IF ~mmio_guard
           THEN /\ Called("handle_mmio_fault", <<addr>>, Panic("get_mmio_guard().unwrap()"), <<>>, <<>>)
                /\ UNCHANGED tracker_vars
           ELSE IF \E i \in 1..Len(walk) : ~verify_lazy_mapped_block(walk[i])
           THEN /\ Called("handle_mmio_fault", <<addr>>, Err("InvalidPte"), <<verify>>, <<>>)
                /\ UNCHANGED tracker_vars
           ELSE \/ /\ Called("handle_mmio_fault", <<addr>>, Err("FailedToMap"), <<verify, map>>, <<>>)
                   /\ UNCHANGED tracker_vars
                \/ /\ pt' = map_range(pt, page_range, DEVICE)
                   /\ Called("handle_mmio_fault", <<addr>>, Err("Hypervisor"), <<verify, map>>, <<guard_map>>)
                   /\ UNCHANGED <<total, regions, mmio_regions, mmio_range, mmio_guard, guard_mapped>>
                \/ /\ guard_mapped' = guard_mapped \cup {page_start}
                   /\ pt' = map_range(pt, page_range, DEVICE)
                   /\ Called("handle_mmio_fault", <<addr>>, OkUnit, <<verify, map>>, <<guard_map>>)
                   /\ UNCHANGED <<total, regions, mmio_regions, mmio_range, mmio_guard>>

\* MemoryTracker::handle_mmio_fault
handle_mmio_fault(addr) ==
    /\ Running
    /\ UNCHANGED shared_vars
    /\ LET page_start == page_4kb_of(addr)
           page_range == Range(page_start, page_start + PAGE_SIZE)
           walk == Walk(pt, page_start)
           verify == PtCall("modify_range", page_range)
           map == PtCall("map_device", page_range)
           guard_map == <<"mmio_guard_map", page_start>>
       IN  IF ~mmio_guard
           THEN /\ Called("handle_mmio_fault", <<addr>>, Panic("get_mmio_guard().unwrap()"), <<>>, <<>>)
                /\ UNCHANGED tracker_vars
           ELSE IF \E i \in 1..Len(walk) : ~verify_lazy_mapped_block(walk[i])
           THEN /\ Called("handle_mmio_fault", <<addr>>, Err("InvalidPte"), <<verify>>, <<>>)
                /\ UNCHANGED tracker_vars
           ELSE \/ /\ Called("handle_mmio_fault", <<addr>>, Err("Hypervisor"), <<verify>>, <<guard_map>>)
                   /\ UNCHANGED tracker_vars
                \/ /\ guard_mapped' = guard_mapped \cup {page_start}
                   /\ Called("handle_mmio_fault", <<addr>>, Err("FailedToMap"), <<verify, map>>, <<guard_map>>)
                   /\ UNCHANGED <<total, regions, mmio_regions, mmio_range, pt, mmio_guard>>
                \/ /\ guard_mapped' = guard_mapped \cup {page_start}
                   /\ pt' = map_range(pt, page_range, DEVICE)
                   /\ Called("handle_mmio_fault", <<addr>>, OkUnit, <<verify, map>>, <<guard_map>>)
                   /\ UNCHANGED <<total, regions, mmio_regions, mmio_range, mmio_guard>>

----------------------------------------------------------------------------
(* Arithmetic on sizes and addresses *)

Max(a, b) == IF a >= b THEN a ELSE b
Min(a, b) == IF a <= b THEN a ELSE b

\* usize::next_power_of_two
RECURSIVE next_power_of_two_from(_, _)
next_power_of_two_from(n, p) == IF p >= n THEN p ELSE next_power_of_two_from(n, 2 * p)
next_power_of_two(n) == next_power_of_two_from(n, 1)

\* the largest power of two that is <= n, for n >= 1
prev_power_of_two(n) == IF next_power_of_two(n) = n THEN n ELSE next_power_of_two(n) \div 2

\* usize::trailing_zeros
RECURSIVE trailing_zeros(_)
trailing_zeros(n) == IF n % 2 = 1 THEN 0 ELSE 1 + trailing_zeros(n \div 2)

\* usize::is_power_of_two
is_power_of_two(n) == n >= 1 /\ next_power_of_two(n) = n

\* core::alloc::Layout
Layout(size, align) == [size |-> size, align |-> align]

\* Layout::align_to
align_to(l, align) == Layout(l.size, Max(l.align, align))

\* Layout::pad_to_align
pad_to_align(l) == Layout(((l.size + l.align - 1) \div l.align) * l.align, l.align)

----------------------------------------------------------------------------
(* The global allocator: alloc_zeroed and dealloc on a small heap *)

HeapStart == 2 ^ 3
\* The number of bytes of heap.
HeapSize == 4
HeapAddrs == HeapStart..(HeapStart + HeapSize - 1)
\* The number of refills a run is followed for.
MaxRefills == 2

Block(base, l) == [base |-> base, layout |-> l]
BlockBytes(b) == b.base..(b.base + b.layout.size - 1)

\* The bytes of the heap that are handed out.
HeapUsed(h) == UNION {BlockBytes(b) : b \in h}

\* alloc_zeroed(layout): the bases it may return; none of them is null.
alloc_zeroed(h, l) ==
    {base \in HeapAddrs :
        /\ base % l.align = 0
        /\ base + l.size - 1 \in HeapAddrs
        /\ BlockBytes(Block(base, l)) \cap HeapUsed(h) = {}}

----------------------------------------------------------------------------
(* The frame allocator of the pool: buddy_system_allocator::FrameAllocator<32> *)

ORDER == 32

None == -1

EmptyFreeList == [o \in 0..(ORDER - 1) |-> {}]

SetMin(S) == CHOOSE x \in S : \A y \in S : x <= y

\* FrameAllocator::add_frame (sizes stay far below 1 << (ORDER - 1))
RECURSIVE add_frame(_, _, _)
add_frame(fl, start, end) ==
    IF start >= end THEN fl
    ELSE LET lowbit == IF start > 0 THEN 2 ^ trailing_zeros(start) ELSE 32
             size == Min(lowbit, prev_power_of_two(end - start))
         IN  add_frame([fl EXCEPT ![trailing_zeros(size)] = @ \cup {start}], start + size, end)

\* alloc_power_of_two, the splitting: a block of class j becomes two of class j - 1
RECURSIVE split_down(_, _, _)
split_down(fl, j, class) ==
    IF j <= class THEN fl
    ELSE LET block == SetMin(fl[j])
         IN  split_down([fl EXCEPT ![j] = @ \ {block},
                                   ![j - 1] = @ \cup {block, block + 2 ^ (j - 1)}],
                        j - 1, class)

\* FrameAllocator::alloc_aligned: [ptr, free_list]; ptr is None when nothing fits
alloc_aligned(fl, l) ==
    LET size == Max(next_power_of_two(l.size), l.align)
        class == trailing_zeros(size)
        fits == {i \in class..(ORDER - 1) : fl[i] # {}}
    IN  IF fits = {} THEN [ptr |-> None, free_list |-> fl]
        ELSE LET split == split_down(fl, SetMin(fits), class)
                 block == SetMin(split[class])
             IN  [ptr |-> block, free_list |-> [split EXCEPT ![class] = @ \ {block}]]

\* dealloc_power_of_two: merge with the free buddy as long as there is one
RECURSIVE dealloc_power_of_two(_, _, _)
dealloc_power_of_two(fl, ptr, class) ==
    IF class >= ORDER THEN fl
    ELSE LET buddy == IF (ptr \div 2 ^ class) % 2 = 0 THEN ptr + 2 ^ class ELSE ptr - 2 ^ class
         IN  IF buddy \in fl[class]
             THEN dealloc_power_of_two([fl EXCEPT ![class] = @ \ {buddy}], Min(ptr, buddy), class + 1)
             ELSE [fl EXCEPT ![class] = @ \cup {ptr}]

\* FrameAllocator::dealloc_aligned
dealloc_aligned(fl, ptr, l) ==
    dealloc_power_of_two(fl, ptr, trailing_zeros(Max(next_power_of_two(l.size), l.align)))

----------------------------------------------------------------------------
(* MemorySharer *)

NoSharer == [some |-> FALSE, granule |-> 0, frames |-> <<>>]

\* MemorySharer::new; the caller has checked granule.is_power_of_two()
MemorySharer(granule) == [some |-> TRUE, granule |-> granule, frames |-> <<>>]

\* (base..end).step_by(granule), as a sequence
step_by(base, end, granule) ==
    [i \in 1..((end - base + granule - 1) \div granule) |-> base + (i - 1) * granule]

\* One more call counted for each of the addresses of a sequence.
Counted(bag, addrs) ==
    [a \in DOMAIN bag |-> bag[a] + Cardinality({i \in 1..Len(addrs) : addrs[i] = a})]

Prefix(seq, n) == SubSeq(seq, 1, n)

Tagged(tag, addrs) == [i \in 1..Len(addrs) |-> <<tag, addrs[i]>>]

\* refill that asks the heap for the hint as it is, neither aligned to the granule
\* nor padded
refill_unpadded(sharer, fl, hint) ==
    LET layout == hint
        null == [panic |-> TRUE, sharer |-> sharer, free_list |-> fl, heap |-> heap,
                 shares |-> shares, calls |-> << <<"alloc_zeroed", None>> >>]
        from(base) ==
            LET end == base + layout.size
                addrs == IF mem_sharer THEN step_by(base, end, sharer.granule) ELSE <<>>
                got == heap \cup {Block(base, layout)}
                done == [panic |-> FALSE,
                         sharer |-> [sharer EXCEPT !.frames = Append(@, Block(base, layout))],
                         free_list |-> add_frame(fl, base, end),
                         heap |-> got,
                         shares |-> Counted(shares, addrs),
                         calls |-> << <<"alloc_zeroed", base>> >> \o Tagged("share", addrs)
                                      \o << <<"add_frame", base>> >>]
            IN  {done}
        empty == [panic |-> TRUE, sharer |-> sharer, free_list |-> fl, heap |-> heap,
                  shares |-> shares, calls |-> <<>>]
    IN  IF layout.size = 0 THEN {empty}
        ELSE {null} \cup UNION {from(base) : base \in alloc_zeroed(heap, layout)}

\* MemorySharer::refill, for each base alloc_zeroed may return and each hypervisor
\* call that may fail: what it leaves behind.  sharer is the MemorySharer, fl the
\* free lists of the pool.
refill(sharer, fl, hint) ==
    LET layout == pad_to_align(align_to(hint, sharer.granule))
        null == [panic |-> TRUE, sharer |-> sharer, free_list |-> fl, heap |-> heap,
                 shares |-> shares, calls |-> << <<"alloc_zeroed", None>> >>]
        from(base) ==
            LET end == base + layout.size
                addrs == IF mem_sharer THEN step_by(base, end, sharer.granule) ELSE <<>>
                got == heap \cup {Block(base, layout)}
                done == [panic |-> FALSE,
                         sharer |-> [sharer EXCEPT !.frames = Append(@, Block(base, layout))],
                         free_list |-> add_frame(fl, base, end),
                         heap |-> got,
                         shares |-> Counted(shares, addrs),
                         calls |-> << <<"alloc_zeroed", base>> >> \o Tagged("share", addrs)
                                      \o << <<"add_frame", base>> >>]
                failed(n) == [panic |-> TRUE, sharer |-> sharer, free_list |-> fl, heap |-> got,
                              shares |-> Counted(shares, Prefix(addrs, n)),
                              calls |-> << <<"alloc_zeroed", base>> >>
                                           \o Tagged("share", Prefix(addrs, n))]
            IN  {done} \cup {failed(n) : n \in 1..Len(addrs)}
        empty == [panic |-> TRUE, sharer |-> sharer, free_list |-> fl, heap |-> heap,
                  shares |-> shares, calls |-> <<>>]
    IN  IF layout.size = 0 THEN {empty}    \* assert_ne!(layout.size(), 0)
        ELSE {null} \cup UNION {from(base) : base \in alloc_zeroed(heap, layout)}

\* Dropping a block with a single unshare call, for its first granule
unshare_block_first_only(sharer, frame) ==
    IF mem_sharer THEN <<frame.base>> ELSE <<>>

\* Dropping a block with unshare calls whether or not the hypervisor shares memory
unshare_block_unconditional(sharer, frame) ==
    step_by(frame.base, frame.base + frame.layout.size, sharer.granule)

\* The unshare calls of dropping one block.
unshare_block(sharer, frame) ==
    IF mem_sharer
    THEN step_by(frame.base, frame.base + frame.layout.size, sharer.granule)
    ELSE <<>>

\* Drop for MemorySharer that deallocates each block before it unshares it
RECURSIVE drop_calls_dealloc_first(_, _)
drop_calls_dealloc_first(sharer, n) ==
    IF n = 0 THEN <<>>
    ELSE << <<"dealloc", sharer.frames[n].base>> >>
            \o Tagged("unshare", unshare_block(sharer, sharer.frames[n]))
            \o drop_calls_dealloc_first(sharer, n - 1)

\* impl Drop for MemorySharer, run to its end: the blocks from the last one pushed
\* to the first, each unshared granule by granule and then deallocated.
RECURSIVE drop_calls(_, _)
drop_calls(sharer, n) ==
    IF n = 0 THEN <<>>
    ELSE Tagged("unshare", unshare_block(sharer, sharer.frames[n]))
            \o << <<"dealloc", sharer.frames[n].base>> >>
            \o drop_calls(sharer, n - 1)

Addrs(calls, tag) ==
    LET idx == {i \in 1..Len(calls) : calls[i][1] = tag}
        RECURSIVE take(_)
        take(i) == IF i > Len(calls) THEN <<>>
                   ELSE IF i \in idx THEN <<calls[i][2]>> \o take(i + 1)
                   ELSE take(i + 1)
    IN  take(1)

\* impl Drop for MemorySharer: what it leaves behind when it runs to its end and
\* when an unshare call fails (the unwrap panics there).
drop_sharer(sharer) ==
    LET calls == drop_calls(sharer, Len(sharer.frames))
        cut(n) == Prefix(calls, n)
        freed(cs) == {b \in heap : b.base \in {cs[i][2] : i \in {k \in 1..Len(cs) : cs[k][1] = "dealloc"}}}
        popped(cs) == Cardinality({k \in 1..Len(cs) : cs[k][1] = "dealloc"})
        after(cs, panic) ==
            [panic |-> panic,
             sharer |-> [sharer EXCEPT !.frames =
                            Prefix(@, Len(@) - popped(cs) - (IF panic THEN 1 ELSE 0))],
             heap |-> heap \ freed(cs),
             unshares |-> Counted(unshares, Addrs(cs, "unshare")),
             calls |-> cs]
    IN  {after(calls, FALSE)}
        \cup {after(cut(n), TRUE) : n \in {k \in 1..Len(calls) : calls[k][1] = "unshare"}}

----------------------------------------------------------------------------
(* The shared pool *)

PoolUnset == [set |-> FALSE, free_list |-> EmptyFreeList]
Pool(fl) == [set |-> TRUE, free_list |-> fl]

OkPtr(p) == Ok(Range(p, p))

\* SHARED_POOL.set that replaces a pool that is already set, and reports the failure
once_set_overwrites(pool, fl) == [ok |-> ~pool.set, pool |-> Pool(fl)]

\* OnceBox::set on SHARED_POOL: it fails and changes nothing when the pool is set
once_set(pool, fl) ==
    IF pool.set THEN [ok |-> FALSE, pool |-> pool] ELSE [ok |-> TRUE, pool |-> Pool(fl)]

\* MemoryTracker::init_dynamic_shared_pool
init_dynamic_shared_pool_as(o, a, granule) ==
    /\ Running
    /\ UNCHANGED <<tracker_vars, mem_sharer, shares, buffers, refills>>
    /\ IF ~is_power_of_two(granule)
       THEN /\ Called(o, a, Panic("assert!(granule.is_power_of_two())"), <<>>, <<>>)
            /\ UNCHANGED <<shared_pool, shared_memory, heap, unshares, dropped>>
       ELSE IF shared_memory.some
       THEN \* replace() has put the new MemorySharer in place; the previous one is dropped
            \E d \in drop_sharer(shared_memory) :
                /\ shared_memory' = MemorySharer(granule)
                /\ dropped' = d.sharer
                /\ heap' = d.heap
                /\ unshares' = d.unshares
                /\ UNCHANGED shared_pool
                /\ Called(o, a, IF d.panic THEN Panic("unshare failed")
                                ELSE Err("SharedMemorySetFailure"), <<>>, d.calls)
       ELSE /\ shared_memory' = MemorySharer(granule)
            /\ UNCHANGED <<heap, unshares, dropped>>
            /\ LET set == once_set(shared_pool, EmptyFreeList)
               IN  /\ shared_pool' = set.pool
                   /\ Called(o, a, IF set.ok THEN OkUnit ELSE Err("SharedPoolSetFailure"),
                             <<>>, <<>>)
    /\ pool_init' = IF result' = OkUnit THEN o ELSE pool_init

init_dynamic_shared_pool(granule) ==
    init_dynamic_shared_pool_as("init_dynamic_shared_pool", <<granule>>, granule)

\* MemoryTracker::init_heap_shared_pool: the granule is size_of::<u8>()
init_heap_shared_pool == init_dynamic_shared_pool_as("init_heap_shared_pool", <<>>, 1)

\* MemoryTracker::init_static_shared_pool: the range becomes a ReadWrite region
\* (alloc_mut) and the only frame of a new pool, which SHARED_POOL is then set to.
init_static_shared_pool(range) ==
    /\ Running
    /\ UNCHANGED <<shared_memory, mem_sharer, heap, shares, unshares, dropped, buffers, refills>>
    /\ LET o == "init_static_shared_pool"
           a == <<range.start, range.end>>
           size == range_len(range)
           r == Range(range.start, range.start + size)
           region == MemoryRegion(r, "ReadWrite")
           c == check(region)
           ptc == <<PtCall("map_data_dbm", r)>>
           set == once_set(shared_pool, add_frame(EmptyFreeList, r.start, r.end))
       IN  IF size = 0
           THEN /\ Called(o, a, Panic("NonZeroUsize::new(range.len()).unwrap()"), <<>>, <<>>)
                /\ UNCHANGED <<tracker_vars, shared_pool, pool_init>>
           ELSE IF c # "Ok"
           THEN /\ Called(o, a, Err(c), <<>>, <<>>)
                /\ UNCHANGED <<tracker_vars, shared_pool, pool_init>>
           ELSE \/ /\ Called(o, a, Err("FailedToMap"), ptc, <<>>)
                   /\ UNCHANGED <<tracker_vars, shared_pool, pool_init>>
                \/ /\ regions' = Append(regions, region)
                   /\ pt' = map_range(pt, r, DATA_DBM)
                   /\ UNCHANGED <<total, mmio_regions, mmio_range, mmio_guard, guard_mapped>>
                   /\ shared_pool' = set.pool
                   /\ pool_init' = IF set.ok THEN o ELSE pool_init
                   /\ Called(o, a, IF set.ok THEN OkUnit ELSE Err("SharedPoolSetFailure"),
                             ptc, <<<<"insert", r.start>>>>)

\* drop(SHARED_MEMORY.lock().take()), as the last thing the call o does: ptc and
\* before are the page-table and other calls o made before it.
take_and_drop(o, ptc, before) ==
    IF shared_memory.some
    THEN \E d \in drop_sharer(shared_memory) :
            /\ shared_memory' = NoSharer
            /\ dropped' = d.sharer
            /\ heap' = d.heap
            /\ unshares' = d.unshares
            /\ Called(o, <<>>, IF d.panic THEN Panic("unshare failed") ELSE OkUnit,
                      ptc, before \o d.calls)
    ELSE /\ UNCHANGED <<shared_memory, dropped, heap, unshares>>
         /\ Called(o, <<>>, OkUnit, ptc, before)

\* MemoryTracker::unshare_all_memory
unshare_all_memory ==
    /\ Running
    /\ UNCHANGED <<tracker_vars, mem_sharer, shares, buffers, shared_pool, refills, pool_init>>
    /\ take_and_drop("unshare_all_memory", <<>>, <<>>)

\* A writable page with dirty-state tracking that was written: DBM set, READ_ONLY clear.
Dirty(flags) == {"VALID", "DBM"} \subseteq flags /\ "READ_ONLY" \notin flags

\* dbm::mark_dirty_block on the leaf entry of a page: a clean page with
\* dirty-state tracking becomes dirty; any other entry is refused.
mark_dirty_block(flags) ==
    IF {"VALID", "DBM", "READ_ONLY"} \subseteq flags
    THEN [ok |-> TRUE, flags |-> flags \ {"READ_ONLY"}]
    ELSE [ok |-> FALSE, flags |-> flags]

\* handle_permission_fault that walks a page-sized range from addr on
handle_permission_fault_page_range(addr) ==
    /\ Running
    /\ UNCHANGED shared_vars
    /\ LET r == Range(addr, addr + PAGE_SIZE)
           ok == \A p \in PagesOf(r) : mark_dirty_block(pt[p]).ok
           ptc == <<PtCall("modify_range(mark_dirty_block)", r)>>
       IN  /\ pt' = [p \in Pages |-> IF ok /\ p \in PagesOf(r)
                                     THEN mark_dirty_block(pt[p]).flags ELSE pt[p]]
           /\ UNCHANGED <<total, regions, mmio_regions, mmio_range, mmio_guard, guard_mapped>>
           /\ Called("handle_permission_fault", <<addr>>,
                     IF ok THEN OkUnit ELSE Err("SetPteDirtyFailed"), ptc, <<>>)

\* MemoryTracker::handle_permission_fault
handle_permission_fault(addr) ==
    /\ Running
    /\ UNCHANGED shared_vars
    /\ LET page == page_4kb_of(addr)
           m == mark_dirty_block(pt[page])
           ptc == <<PtCall("modify_range(mark_dirty_block)", Range(addr, addr + 1))>>
       IN  /\ pt' = [pt EXCEPT ![page] = m.flags]
           /\ UNCHANGED <<total, regions, mmio_regions, mmio_range, mmio_guard, guard_mapped>>
           /\ Called("handle_permission_fault", <<addr>>,
                     IF m.ok THEN OkUnit ELSE Err("SetPteDirtyFailed"), ptc, <<>>)

\* FlushRanges with every region of the catalog, the ReadOnly ones too
FlushRanges_every_region ==
    [i \in 1..Len(regions) |-> regions[i].range]
    \o (IF payload_range.some THEN <<payload_range.range>> ELSE <<>>)

\* The ranges flush_dirty_pages walks: the ReadWrite regions in catalog order,
\* then the payload range.
FlushRanges ==
    [i \in 1..Cardinality({k \in 1..Len(regions) : regions[k].mem_type = "ReadWrite"}) |->
        LET rw == {k \in 1..Len(regions) : regions[k].mem_type = "ReadWrite"}
            kth == CHOOSE k \in rw : Cardinality({j \in rw : j <= k}) = i
        IN  regions[kth].range]
    \o (IF payload_range.some THEN <<payload_range.range>> ELSE <<>>)

\* modify_range(range, flush_dirty_range) for each of the ranges: every dirty page
\* of theirs is written back and its entry made clean.
flush_ranges(table, rs) ==
    LET pages == UNION {PagesOf(rs[i]) : i \in 1..Len(rs)}
    IN  [p \in Pages |-> IF p \in pages /\ Dirty(table[p])
                         THEN table[p] \cup {"READ_ONLY"} ELSE table[p]]

\* flush_dirty_pages that walks the ReadWrite regions and leaves out the payload
flush_dirty_pages_regions_only(table) ==
    flush_ranges(table, SubSeq(FlushRanges, 1,
                               Len(FlushRanges) - (IF payload_range.some THEN 1 ELSE 0)))

\* MemoryTracker::flush_dirty_pages, when no walk fails
flush_dirty_pages(table) == flush_ranges(table, FlushRanges)

\* dsb!("ish"), in the order of the page-table accesses
Barrier == <<"dsb", 0, 0>>

\* MemoryTracker::flush_dirty_pages, each way it can end: the barrier, then the walks
\* in order; the walk that fails ends it with FlushRegionFailed, the ranges before
\* it flushed.
flush_dirty_pages_outcomes ==
    LET walks == [i \in 1..Len(FlushRanges) |->
                    PtCall("modify_range(flush_dirty_range)", FlushRanges[i])]
    IN  { [result |-> OkUnit, table |-> flush_dirty_pages(pt), calls |-> <<Barrier>> \o walks] }
        \cup { [result |-> Err("FlushRegionFailed"),
                table |-> flush_ranges(pt, Prefix(FlushRanges, n - 1)),
                calls |-> <<Barrier>> \o Prefix(walks, n)] : n \in 1..Len(walks) }

\* impl Drop for MemoryTracker: set_dbm_enabled(false), flush_dirty_pages().unwrap(),
\* unshare_all_memory().  A walk of the page table that fails makes the unwrap panic.
drop ==
    /\ Running
    /\ UNCHANGED <<total, regions, mmio_regions, mmio_range, mmio_guard, guard_mapped,
                   mem_sharer, shares, buffers, shared_pool, refills, pool_init>>
    /\ LET dbm_off == <<"set_dbm_enabled", 0>>
           \* the call, with the number of pages it wrote back
           flush(table) == <<"flush_dirty_pages", Cardinality({p \in Pages : table[p] # pt[p]})>>
       IN  \E f \in flush_dirty_pages_outcomes :
              /\ pt' = f.table
              /\ IF f.result = OkUnit
                 THEN take_and_drop("drop", f.calls,
                                    <<dbm_off, flush(pt'), <<"unshare_all_memory", 0>> >>)
                 ELSE /\ Called("drop", <<>>,
                                Panic("flush_dirty_pages().unwrap(): FlushRegionFailed"),
                                f.calls, <<dbm_off, flush(pt')>>)
                      /\ UNCHANGED <<shared_memory, dropped, heap, unshares>>

\* alloc_shared with a null pointer for an exhausted pool
alloc_result_null(buffer) == IF buffer = None THEN OkPtr(0) ELSE OkPtr(buffer)

\* alloc_shared: what it makes of try_shared_alloc's Option
alloc_result(buffer) ==
    IF buffer = None THEN Panic("handle_alloc_error") ELSE OkPtr(buffer)

PoolCall(ptr) == <<"alloc_aligned", ptr>>

\* alloc_shared, with try_shared_alloc
alloc_shared(layout) ==
    /\ Running
    /\ UNCHANGED <<tracker_vars, mem_sharer, unshares, dropped, pool_init>>
    /\ LET a == <<layout.size, layout.align>>
           first == alloc_aligned(shared_pool.free_list, layout)
       IN  IF layout.size = 0
           THEN /\ Called("alloc_shared", a, Panic("assert_ne!(layout.size(), 0)"), <<>>, <<>>)
                /\ UNCHANGED <<shared_pool, shared_memory, heap, shares, buffers, refills>>
           ELSE IF ~shared_pool.set
           THEN /\ Called("alloc_shared", a, Panic("SHARED_POOL.get().unwrap()"), <<>>, <<>>)
                /\ UNCHANGED <<shared_pool, shared_memory, heap, shares, buffers, refills>>
           ELSE IF first.ptr # None
           THEN /\ shared_pool' = Pool(first.free_list)
                /\ buffers' = buffers \cup {Block(first.ptr, layout)}
                /\ Called("alloc_shared", a, alloc_result(first.ptr), <<>>, <<PoolCall(first.ptr)>>)
                /\ UNCHANGED <<shared_memory, heap, shares, refills>>
           ELSE IF shared_memory.some
           THEN \E r \in refill(shared_memory, shared_pool.free_list, layout) :
                    /\ refills < MaxRefills
                    /\ refills' = refills + 1
                    /\ shared_memory' = r.sharer
                    /\ heap' = r.heap
                    /\ shares' = r.shares
                    /\ IF r.panic
                       THEN /\ shared_pool' = Pool(r.free_list)
                            /\ UNCHANGED buffers
                            /\ Called("alloc_shared", a, Panic("refill"), <<>>,
                                      <<PoolCall(None), <<"refill">> >> \o r.calls)
                       ELSE LET second == alloc_aligned(r.free_list, layout)
                            IN  /\ shared_pool' = Pool(second.free_list)
                                /\ buffers' = IF second.ptr = None THEN buffers
                                              ELSE buffers \cup {Block(second.ptr, layout)}
                                /\ Called("alloc_shared", a, alloc_result(second.ptr), <<>>,
                                          <<PoolCall(None), <<"refill">> >> \o r.calls
                                             \o <<PoolCall(second.ptr)>>)
           ELSE /\ Called("alloc_shared", a, alloc_result(None), <<>>, <<PoolCall(None)>>)
                /\ UNCHANGED <<shared_pool, shared_memory, heap, shares, buffers, refills>>

\* dealloc_shared that unshares the granule the buffer starts in
dealloc_shared_unshares(buffer) ==
    /\ Running
    /\ buffer \in buffers
    /\ UNCHANGED <<tracker_vars, mem_sharer, shared_memory, heap, shares, dropped,
                   refills, pool_init>>
    /\ shared_pool' = Pool(dealloc_aligned(shared_pool.free_list, buffer.base, buffer.layout))
    /\ buffers' = buffers \ {buffer}
    /\ unshares' = IF buffer.base \in HeapAddrs THEN Counted(unshares, <<buffer.base>>)
                   ELSE unshares
    /\ Called("dealloc_shared", <<buffer.base, buffer.layout.size, buffer.layout.align>>,
              OkUnit, <<>>, << <<"unshare", buffer.base>>, <<"dealloc_aligned", buffer.base>> >>)

\* dealloc_shared, for a buffer that alloc_shared returned with this layout
dealloc_shared(buffer) ==
    /\ Running
    /\ buffer \in buffers
    /\ UNCHANGED <<tracker_vars, mem_sharer, shared_memory, heap, shares, unshares, dropped,
                   refills, pool_init>>
    /\ shared_pool' = Pool(dealloc_aligned(shared_pool.free_list, buffer.base, buffer.layout))
    /\ buffers' = buffers \ {buffer}
    /\ Called("dealloc_shared", <<buffer.base, buffer.layout.size, buffer.layout.align>>,
              OkUnit, <<>>, <<<<"dealloc_aligned", buffer.base>>>>)

----------------------------------------------------------------------------
(* The tracker of the concrete scenario: RAM 0x1000..0x5000, MMIO 0x9000..0xA000 *)

ScenarioTotal == Range(\H1000, \H5000)
ScenarioMmio == Range(\H9000, \HA000)

\* The statics before anything ran: SHARED_POOL unset, SHARED_MEMORY None.
statics(sharing) ==
    /\ shared_pool = PoolUnset
    /\ shared_memory = NoSharer
    /\ mem_sharer = sharing
    /\ heap = {}
    /\ shares = [a \in HeapAddrs |-> 0]
    /\ unshares = [a \in HeapAddrs |-> 0]
    /\ dropped = NoSharer
    /\ buffers = {}
    /\ refills = 0
    /\ pool_init = "none"

\* No fd_server in a guest that runs the MemoryTracker.
no_fd_service == fd_pool = << >> /\ files = << >> /\ reply = << >>

\* The contexts that may run the shared-pool functions at the same time.
Ctx == {1, 2}

\* One context at a time: both locks free, nobody inside a shared-pool function.
unlocked ==
    /\ pool_lock = 0
    /\ sharer_lock = 0
    /\ pc = [c \in Ctx |-> "idle"]
    /\ local = [c \in Ctx |-> 0]

one_context == unlocked /\ sharer_slot = 0 /\ pool_set = FALSE /\ created = 0

\* payload_range: None, or Some(range)
NoPayload == [some |-> FALSE, range |-> NoRange]
Payload(r) == [some |-> TRUE, range |-> r]

\* new without its assertion that total and mmio_range do not overlap
new_unchecked(t, m, guard, payload) ==
    /\ total = t
    /\ regions = <<>>
    /\ mmio_regions = <<>>
    /\ mmio_range = m
    /\ payload_range = payload
    /\ pt = [p \in Pages |-> IF payload.some /\ p \in PagesOf(payload.range)
                              THEN DATA_DBM ELSE Unmapped]
    /\ mmio_guard = guard
    /\ guard_mapped = {}
    /\ op = "new"
    /\ arg = <<>>
    /\ result = OkUnit
    /\ pt_calls = <<>>
    /\ ext_calls = <<>>
    /\ scenario = IF t = ScenarioTotal /\ m = ScenarioMmio THEN 0 ELSE -1

\* MemoryTracker::new.  The page table it is given maps the payload, if there is
\* one, as writable data with dirty-state tracking.
new(t, m, guard, payload) ==
    /\ ~overlaps(t, m)
    /\ total = t
    /\ regions = <<>>
    /\ mmio_regions = <<>>
    /\ mmio_range = m
    /\ payload_range = payload
    /\ pt = [p \in Pages |-> IF payload.some /\ p \in PagesOf(payload.range)
                              THEN DATA_DBM ELSE Unmapped]
    /\ mmio_guard = guard
    /\ guard_mapped = {}
    /\ op = "new"
    /\ arg = <<>>
    /\ result = OkUnit
    /\ pt_calls = <<>>
    /\ ext_calls = <<>>
    /\ scenario = IF t = ScenarioTotal /\ m = ScenarioMmio THEN 0 ELSE -1

\* The arguments the calls are tried with.
RoArgs == { Range(\H1800, \H2800), Range(\H2000, \H3000), Range(\H4000, \H6000) }

RwArgs ==
    { Range(\H1000, \H2000), Range(\H2000, \H3000), Range(\H0800, \H1800) }

\* (base, size) pairs; size is a NonZeroUsize
AllocArgs == { <<\H3000, \H1000>>, <<\H4000, \H2000>>, <<\H1800, \HFC00>> }

AllocMutArgs == { <<\H3000, \H0800>>, <<\HF000, \H2000>> }

ShrinkArgs ==
    { Range(\H1000, \H3000), Range(\H1000, \H1800), Range(\H1000, \H5000),
      Range(\H1000, \H6000), Range(\H2000, \H5000) }

MmioArgs ==
    { Range(\H9000, \H9100), Range(\H90F0, \H9200), Range(\H9F00, \HA100) }

Init == no_fd_service /\ one_context /\ statics(TRUE) /\ \E guard \in BOOLEAN : new(ScenarioTotal, ScenarioMmio, guard, NoPayload)

Next ==
    \/ \E r \in RoArgs : alloc_range(r)
    \/ \E r \in RwArgs : alloc_range_mut(r)
    \/ \E a \in AllocArgs : alloc(a[1], a[2])
    \/ \E a \in AllocMutArgs : alloc_mut(a[1], a[2])
    \/ \E r \in ShrinkArgs : shrink(r)
    \/ \E r \in MmioArgs : map_mmio_range(r)

Spec == Init /\ [][Next]_vars

----------------------------------------------------------------------------
(* The regions catalog filled up: six pairwise disjoint ranges, an empty one *)

CapRoArgs ==
    { Range(\H1000, \H2000), Range(\H2000, \H2800), Range(\H2800, \H3000),
      Range(\H3000, \H3000) }

CapRwArgs ==
    { Range(\H3000, \H4000), Range(\H4000, \H4800), Range(\H4800, \H5000),
      Range(\H1800, \H2800) }

NextCapacity ==
    \/ \E r \in CapRoArgs : alloc_range(r)
    \/ \E r \in CapRwArgs : alloc_range_mut(r)

InitCapacity == no_fd_service /\ one_context /\ statics(TRUE) /\ new(ScenarioTotal, ScenarioMmio, TRUE, NoPayload)

SpecCapacity == InitCapacity /\ [][NextCapacity]_vars

----------------------------------------------------------------------------
(* The MMIO catalog filled up: six pairwise disjoint ranges in three pages *)

WideMmio == Range(\H9000, \HC000)

MmioCapArgs ==
    { Range(\H9000, \H9100), Range(\H9100, \H9200), Range(\H9200, \HA000),
      Range(\HA000, \HB000), Range(\HB000, \HB800), Range(\HB800, \HC000),
      Range(\H90F0, \H9200), Range(\HBF00, \HC100) }

InitMmioCapacity == no_fd_service /\ one_context /\ statics(TRUE) /\ \E guard \in BOOLEAN : new(ScenarioTotal, WideMmio, guard, NoPayload)

NextMmioCapacity == \E r \in MmioCapArgs : map_mmio_range(r)

SpecMmioCapacity == InitMmioCapacity /\ [][NextMmioCapacity]_vars

----------------------------------------------------------------------------
(* MMIO mapping and the translation faults on it *)

MmioFaultArgs ==
    { Range(\H9000, \H9100), Range(\H9100, \H9200), Range(\HA000, \HC000),
      Range(\H9800, \HA800) }

FaultAddrs == { \H9010, \HA000, \HBFFF, \H1008, \H2000 }

InitMmio == no_fd_service /\ one_context /\ statics(TRUE) /\ \E guard \in BOOLEAN : new(ScenarioTotal, WideMmio, guard, NoPayload)

NextMmio ==
    \/ \E r \in MmioFaultArgs : map_mmio_range(r)
    \/ \E a \in FaultAddrs : handle_mmio_fault(a)
    \/ alloc_range(Range(\H1000, \H2000))

SpecMmio == InitMmio /\ [][NextMmio]_vars

----------------------------------------------------------------------------
(* The shared pool in dynamic and heap mode *)

GranuleArgs == { 1, 2 }

LayoutArgs == { Layout(1, 1), Layout(3, 1), Layout(0, 1) }

InitShared == no_fd_service /\ one_context /\ (\E sharing \in BOOLEAN : statics(sharing)) /\ new(ScenarioTotal, ScenarioMmio, TRUE, NoPayload)

NextShared ==
    \/ \E g \in GranuleArgs : init_dynamic_shared_pool(g)
    \/ init_heap_shared_pool
    \/ unshare_all_memory
    \/ \E l \in LayoutArgs : alloc_shared(l)
    \/ \E b \in buffers : dealloc_shared(b)

SpecShared == InitShared /\ [][NextShared]_vars

----------------------------------------------------------------------------
(* Setting the shared pool: the three initialisations, one after another *)

StaticArgs ==
    { Range(\H3000, \H3002), Range(\H2000, \H2004), Range(\H3000, \H3000),
      Range(\H4000, \H3000), Range(\H4000, \H6000) }

NextPoolInit ==
    \/ \E g \in GranuleArgs : init_dynamic_shared_pool(g)
    \/ init_heap_shared_pool
    \/ \E r \in StaticArgs : init_static_shared_pool(r)
    \/ unshare_all_memory
    \/ alloc_shared(Layout(1, 1))

SpecPoolInit == InitShared /\ [][NextPoolInit]_vars

----------------------------------------------------------------------------
(* Teardown: writable regions and a payload get dirty, memory is shared, and the
   MemoryTracker is dropped *)

ScenarioPayload == Range(\HB000, \HC000)

DropRwArgs == { Range(\H1000, \H3000) }

DropRoArgs == { Range(\H3000, \H3800) }

PermissionFaultAddrs == { \H1008, \H2FFF, \H3008, \HB010 }

InitDrop ==
    /\ no_fd_service /\ one_context
    /\ statics(TRUE)
    /\ \E payload \in {NoPayload, Payload(ScenarioPayload)} :
          new(ScenarioTotal, ScenarioMmio, TRUE, payload)

NextDrop ==
    \/ \E r \in DropRwArgs : alloc_range_mut(r)
    \/ \E r \in DropRoArgs : alloc_range(r)
    \/ \E a \in PermissionFaultAddrs : handle_permission_fault(a)
    \/ init_dynamic_shared_pool(2)
    \/ \E l \in {Layout(1, 1), Layout(3, 1)} : alloc_shared(l)
    \/ drop

SpecDrop == InitDrop /\ [][NextDrop]_vars

----------------------------------------------------------------------------
(* Refills: hints of several sizes and alignments, granules of one and two bytes *)

RefillLayouts == { Layout(1, 1), Layout(1, 2), Layout(2, 1), Layout(3, 1), Layout(3, 2) }

NextRefill ==
    \/ \E g \in GranuleArgs : init_dynamic_shared_pool(g)
    \/ \E l \in RefillLayouts : alloc_shared(l)
    \/ unshare_all_memory

SpecRefill == InitShared /\ [][NextRefill]_vars

----------------------------------------------------------------------------
(* Teardown of the MMIO guard *)

\* mmio_guard_unmap_page that does not look at VALID
mmio_guard_unmap_page_any_leaf(desc) ==
    IF ~desc.leaf THEN "Skip"
    ELSE IF "MMIO_LAZY_MAP_FLAG" \notin desc.flags THEN "Panic"
    ELSE "Unmap"

\* mmio_guard_unmap_page up to its hypervisor call: a table entry or an entry that
\* is not VALID is skipped, a VALID entry without the lazy-MMIO marker fails the
\* assertion, any other is guard-unmapped.  (The VaRange of a leaf is its 4 KiB
\* page, so the two assertions on va_range hold.)
mmio_guard_unmap_page(desc) ==
    IF ~desc.leaf THEN "Skip"
    ELSE IF "VALID" \notin desc.flags THEN "Skip"
    ELSE IF "MMIO_LAZY_MAP_FLAG" \notin desc.flags THEN "Panic"
    ELSE "Unmap"

\* The pages of a set, in ascending order
RECURSIVE Ascending(_)
Ascending(S) == IF S = {} THEN << >> ELSE LET m == SetMin(S) IN <<m>> \o Ascending(S \ {m})

\* What the visitor does on the walk of one page
Visit(table, page) ==
    LET walk == Walk(table, page)
        kinds == {mmio_guard_unmap_page(walk[i]) : i \in 1..Len(walk)}
    IN  IF "Panic" \in kinds THEN "Panic" ELSE IF "Unmap" \in kinds THEN "Unmap" ELSE "Skip"

\* The pages the walks of the ranges rs[from..] stop at for something else than a
\* skip, in order: <<page, what the visitor does, index of the range>>.
RECURSIVE UnmapVisits(_, _, _)
UnmapVisits(table, rs, from) ==
    IF from > Len(rs) THEN << >>
    ELSE LET pages == Ascending(PagesOf(rs[from]))
             here == [i \in 1..Len(pages) |-> <<pages[i], Visit(table, pages[i]), from>>]
         IN  SelectSeq(here, LAMBDA v : v[2] # "Skip") \o UnmapVisits(table, rs, from + 1)

\* MemoryTracker::mmio_unmap_all
mmio_unmap_all ==
    /\ Running
    /\ UNCHANGED shared_vars
    /\ IF ~mmio_guard
       THEN /\ Called("mmio_unmap_all", << >>, OkUnit, << >>, << >>)
            /\ UNCHANGED tracker_vars
       ELSE LET visits == UnmapVisits(pt, mmio_regions, 1)
                panics == {i \in 1..Len(visits) : visits[i][2] = "Panic"}
                calls == IF panics = {} THEN visits ELSE Prefix(visits, SetMin(panics) - 1)
                walked(n) == [i \in 1..n |-> PtCall("modify_range", mmio_regions[i])]
                unmap(n) == [i \in 1..n |-> <<"mmio_guard_unmap", calls[i][1]>>]
                unmapped(n) == {calls[i][1] : i \in 1..n}
            IN  \/ \E n \in 1..Len(calls) :
                      \* the hypervisor refuses the n-th guard-unmap call
                      /\ Called("mmio_unmap_all", << >>, Err("FailedToUnmap"),
                                walked(calls[n][3]), unmap(n))
                      /\ guard_mapped' = guard_mapped \ unmapped(n - 1)
                      /\ UNCHANGED <<total, regions, mmio_regions, mmio_range, pt, mmio_guard>>
                \/ /\ guard_mapped' = guard_mapped \ unmapped(Len(calls))
                   /\ IF panics = {}
                      THEN Called("mmio_unmap_all", << >>, OkUnit,
                                  walked(Len(mmio_regions)), unmap(Len(calls)))
                      ELSE Called("mmio_unmap_all", << >>,
                                  Panic("Attempting MMIO guard unmap for non-device pages"),
                                  walked(visits[SetMin(panics)][3]), unmap(Len(calls)))
                   /\ UNCHANGED <<total, regions, mmio_regions, mmio_range, pt, mmio_guard>>

UnmapArgs ==
    { Range(\H9000, \H9100), Range(\H9100, \H9200), Range(\HA000, \HC000) }

UnmapFaultAddrs == { \H9010, \HA000, \HBFFF }

NextUnmap ==
    \/ \E r \in UnmapArgs : map_mmio_range(r)
    \/ \E a \in UnmapFaultAddrs : handle_mmio_fault(a)
    \/ mmio_unmap_all

SpecUnmap == InitMmio /\ [][NextUnmap]_vars

\* MMIO ranges that share no page: no page is registered twice.
FaultOnlyArgs == { Range(\H9000, \H9100), Range(\HA000, \HC000) }

\* Registrations of distinct pages, and faults.
NextFault ==
    \/ \E r \in FaultOnlyArgs : map_mmio_range(r)
    \/ \E a \in FaultAddrs : handle_mmio_fault(a)

SpecFault == InitMmio /\ [][NextFault]_vars

----------------------------------------------------------------------------
(* Main memory next to the MMIO space: requests into the other space *)

\* (total, mmio_range) pairs a tracker is constructed with: MMIO adjacent to main
\* memory, below it, and overlapping it (which new refuses).
ApartLayouts ==
    { <<Range(\H1000, \H4000), Range(\H4000, \H5000)>>,
      <<Range(\H9000, \HC000), Range(\H1000, \H3000)>>,
      <<Range(\H1000, \H5000), Range(\H4000, \HA000)>> }

\* Requests made of both catalogs alike.
ApartArgs ==
    { Range(\H1000, \H2000), Range(\H2000, \H3000), Range(\H3800, \H4800),
      Range(\H4000, \H5000), Range(\H9000, \HA000) }

ApartShrinkArgs == { Range(\H1000, \H3000), Range(\H9000, \HB000) }

InitApart ==
    /\ no_fd_service /\ one_context
    /\ statics(TRUE)
    /\ \E l \in ApartLayouts : \E guard \in BOOLEAN : new(l[1], l[2], guard, NoPayload)

NextApart ==
    \/ \E r \in ApartArgs : alloc_range(r)
    \/ \E r \in ApartArgs : alloc_range_mut(r)
    \/ \E r \in ApartArgs : map_mmio_range(r)
    \/ \E r \in ApartShrinkArgs : shrink(r)

SpecApart == InitApart /\ [][NextApart]_vars

----------------------------------------------------------------------------
(* Either catalog filled up, then requests that break several rules at once *)

\* A tracker with room for regions only, and one with room for MMIO ranges only.
PrecedenceLayouts ==
    { <<Range(\H1000, \H5000), Range(\H9000, \H9000)>>,
      <<Range(\H1000, \H1000), Range(\H9000, \HC000)>> }

\* Three fitting ranges, and one that leaves total and overlaps 0x4800..0x5000.
PrecedenceRoArgs ==
    { Range(\H1000, \H2000), Range(\H2000, \H2800), Range(\H2800, \H3000),
      Range(\H4C00, \H5400) }

\* Three fitting ranges, and one inside total that overlaps 0x1000..0x2800.
PrecedenceRwArgs ==
    { Range(\H3000, \H4000), Range(\H4000, \H4800), Range(\H4800, \H5000),
      Range(\H1800, \H2800) }

InitPrecedence ==
    /\ no_fd_service /\ one_context
    /\ statics(TRUE)
    /\ \E l \in PrecedenceLayouts : \E guard \in BOOLEAN : new(l[1], l[2], guard, NoPayload)

NextPrecedence ==
    \/ \E r \in PrecedenceRoArgs : alloc_range(r)
    \/ \E r \in PrecedenceRwArgs : alloc_range_mut(r)
    \/ \E r \in MmioCapArgs : map_mmio_range(r)

SpecPrecedence == InitPrecedence /\ [][NextPrecedence]_vars

----------------------------------------------------------------------------
(* Two contexts inside the shared-pool functions: the two locks, step by step *)

\* The number of Sharers a run constructs.
MaxSharers == 3

\* The lock Drop for MemorySharer takes while it runs: none.
DropLock_pool == "pool"

DropLock == "none"

sequential_vars == <<tracker_vars, call_vars, shared_vars, scenario, payload_range, fd_vars>>

\* Nothing runs after a panic or an abort.
Alive == \A c \in Ctx : pc[c] # "abort"

Goto(c, label) == pc' = [pc EXCEPT ![c] = label]

\* The lock a context needs for its next step, "none" when it needs none.
Wanted(c) ==
    CASE pc[c] \in {"a_lock_pool", "d_lock_pool"} -> "pool"
      [] pc[c] \in {"a_lock_sharer", "i_lock", "u_lock"} -> "sharer"
      [] pc[c] \in {"i_drop", "u_drop"} -> IF local[c] # 0 THEN DropLock ELSE "none"
      [] OTHER -> "none"

Holder(lock) == IF lock = "pool" THEN pool_lock ELSE IF lock = "sharer" THEN sharer_lock ELSE 0

\* A context spins on a lock somebody holds (the locks are not re-entrant).
Blocked(c) == Wanted(c) # "none" /\ Holder(Wanted(c)) # 0

\* alloc_shared, dealloc_shared: SHARED_POOL.get().unwrap()
pool_get(c, label) ==
    /\ Alive /\ pc[c] = "idle"
    /\ Goto(c, IF pool_set THEN label ELSE "abort")
    /\ UNCHANGED <<pool_lock, sharer_lock, sharer_slot, local, pool_set, created>>
    /\ UNCHANGED sequential_vars

\* try_shared_alloc / dealloc_shared: .lock() of the pool
lock_pool(c, from, to) ==
    /\ Alive /\ pc[c] = from
    /\ pool_lock = 0
    /\ pool_lock' = c
    /\ Goto(c, to)
    /\ UNCHANGED <<sharer_lock, sharer_slot, local, pool_set, created>>
    /\ UNCHANGED sequential_vars

\* try_shared_alloc: the first alloc_aligned, with the pool locked; a buffer is
\* returned and the guard dropped, or the Sharer is needed.
try_alloc(c) ==
    /\ Alive /\ pc[c] = "a_alloc"
    /\ \/ pool_lock' = 0 /\ Goto(c, "idle")
       \/ pool_lock' = pool_lock /\ Goto(c, "a_lock_sharer")
    /\ UNCHANGED <<sharer_lock, sharer_slot, local, pool_set, created>>
    /\ UNCHANGED sequential_vars

\* try_shared_alloc: SHARED_MEMORY.lock().as_mut(), the pool still locked
lock_sharer(c) ==
    /\ Alive /\ pc[c] = "a_lock_sharer"
    /\ sharer_lock = 0
    /\ sharer_lock' = c
    /\ local' = [local EXCEPT ![c] = sharer_slot]
    /\ Goto(c, IF sharer_slot # 0 THEN "a_refill" ELSE "a_none")
    /\ UNCHANGED <<pool_lock, sharer_slot, pool_set, created>>
    /\ UNCHANGED sequential_vars

\* try_shared_alloc: refill and the second alloc_aligned, then both guards are
\* dropped; without a buffer alloc_shared aborts through handle_alloc_error.
refill_and_retry(c) ==
    /\ Alive /\ pc[c] \in {"a_refill", "a_none"}
    /\ sharer_lock' = 0
    /\ pool_lock' = 0
    /\ local' = [local EXCEPT ![c] = 0]
    /\ \/ pc[c] = "a_refill" /\ Goto(c, "idle")
       \/ Goto(c, "abort")
    /\ UNCHANGED <<sharer_slot, pool_set, created>>
    /\ UNCHANGED sequential_vars

\* dealloc_shared: dealloc_aligned, then the guard is dropped
dealloc_locked(c) ==
    /\ Alive /\ pc[c] = "d_dealloc"
    /\ pool_lock' = 0
    /\ Goto(c, "idle")
    /\ UNCHANGED <<sharer_lock, sharer_slot, local, pool_set, created>>
    /\ UNCHANGED sequential_vars

\* init_dynamic_shared_pool / unshare_all_memory are called
call(c, label) ==
    /\ Alive /\ pc[c] = "idle"
    /\ label = "i_lock" => created < MaxSharers
    /\ Goto(c, label)
    /\ UNCHANGED <<pool_lock, sharer_lock, sharer_slot, local, pool_set, created>>
    /\ UNCHANGED sequential_vars

\* init_dynamic_shared_pool: SHARED_MEMORY.lock().replace(MemorySharer::new(..));
\* the guard is a temporary of the statement.
replace(c) ==
    /\ Alive /\ pc[c] = "i_lock"
    /\ sharer_lock = 0
    /\ created' = created + 1
    /\ sharer_slot' = created'
    /\ local' = [local EXCEPT ![c] = sharer_slot]
    /\ Goto(c, IF sharer_slot # 0 THEN "i_drop" ELSE "i_set")
    /\ UNCHANGED <<pool_lock, sharer_lock, pool_set>>
    /\ UNCHANGED sequential_vars

\* init_dynamic_shared_pool: return Err(SharedMemorySetFailure), which drops the
\* previous Sharer, no lock held.
drop_previous(c) ==
    /\ Alive /\ pc[c] = "i_drop"
    /\ ~Blocked(c)
    /\ local' = [local EXCEPT ![c] = 0]
    /\ Goto(c, "idle")
    /\ UNCHANGED <<pool_lock, sharer_lock, sharer_slot, pool_set, created>>
    /\ UNCHANGED sequential_vars

\* init_dynamic_shared_pool: SHARED_POOL.set(..), Ok or SharedPoolSetFailure
pool_set_once(c) ==
    /\ Alive /\ pc[c] = "i_set"
    /\ pool_set' = TRUE
    /\ Goto(c, "idle")
    /\ UNCHANGED <<pool_lock, sharer_lock, sharer_slot, local, created>>
    /\ UNCHANGED sequential_vars

\* unshare_all_memory: SHARED_MEMORY.lock().take()
take(c) ==
    /\ Alive /\ pc[c] = "u_lock"
    /\ sharer_lock = 0
    /\ sharer_lock' = c
    /\ local' = [local EXCEPT ![c] = sharer_slot]
    /\ sharer_slot' = 0
    /\ Goto(c, "u_drop")
    /\ UNCHANGED <<pool_lock, pool_set, created>>
    /\ UNCHANGED sequential_vars

\* unshare_all_memory: drop(..) of what was taken, then the guard, a temporary of
\* the same statement, is dropped.
drop_taken(c) ==
    /\ Alive /\ pc[c] = "u_drop"
    /\ ~Blocked(c)
    /\ sharer_lock' = 0
    /\ local' = [local EXCEPT ![c] = 0]
    /\ Goto(c, "idle")
    /\ UNCHANGED <<pool_lock, sharer_slot, pool_set, created>>
    /\ UNCHANGED sequential_vars

InitLocks ==
    /\ no_fd_service /\ one_context
    /\ statics(TRUE)
    /\ new(ScenarioTotal, ScenarioMmio, TRUE, NoPayload)

NextLocks ==
    \E c \in Ctx :
       \/ pool_get(c, "a_lock_pool")
       \/ lock_pool(c, "a_lock_pool", "a_alloc")
       \/ try_alloc(c)
       \/ lock_sharer(c)
       \/ refill_and_retry(c)
       \/ pool_get(c, "d_lock_pool")
       \/ lock_pool(c, "d_lock_pool", "d_dealloc")
       \/ dealloc_locked(c)
       \/ call(c, "i_lock")
       \/ replace(c)
       \/ drop_previous(c)
       \/ pool_set_once(c)
       \/ call(c, "u_lock")
       \/ take(c)
       \/ drop_taken(c)

SpecLocks == InitLocks /\ [][NextLocks]_vars

----------------------------------------------------------------------------
(* authfs/fd_server: a file server over descriptors it was started with *)

\* MAX_REQUESTING_DATA of IVirtFdService
MAX_REQUESTING_DATA == 16384

I32_MAX == 2147483647

\* The longest file the model lets a call produce.
MaxFileLen == 3

\* Option<File>::None
NoFile == -1

\* FdConfig::Readonly { file, alt_merkle_tree, alt_signature }
Readonly(file, mt, sig) ==
    [kind |-> "Readonly", file |-> file, alt_merkle_tree |-> mt, alt_signature |-> sig]

\* FdConfig::ReadWrite(file)
ReadWrite(file) ==
    [kind |-> "ReadWrite", file |-> file, alt_merkle_tree |-> NoFile, alt_signature |-> NoFile]

\* The descriptors a FdConfig owns as Files.
FilesOf(config) == {config.file, config.alt_merkle_tree, config.alt_signature} \ {NoFile}

\* A descriptor as the process holds it.
OpenFile(data) == [open |-> TRUE, data |-> data]

\* close(fd), as dropping a File does
close(fs, fds) == [fd \in DOMAIN fs |-> IF fd \in fds THEN [fs[fd] EXCEPT !.open = FALSE] ELSE fs[fd]]

\* is_fd_valid
is_fd_valid(fs, fd) == fd \in DOMAIN fs /\ fs[fd].open

\* What parse_args has built so far: the pool, the descriptors, and whether it bailed.
Parsed(pool, fs, ok) == [fd_pool |-> pool, files |-> fs, ok |-> ok]

\* fd_pool.insert(fd, config): a config it replaces is dropped, which closes its Files.
insert(st, fd, config) ==
    LET pool == [id \in DOMAIN st.fd_pool \cup {fd} |-> IF id = fd THEN config ELSE st.fd_pool[id]]
    IN  IF fd \in DOMAIN st.fd_pool
        THEN Parsed(pool, close(st.files, FilesOf(st.fd_pool[fd])), TRUE)
        ELSE Parsed(pool, st.files, TRUE)

\* parse_arg_ro_fds over the numbers of one --ro-fds argument, then the insert
parse_arg_ro_fds(st, fds) ==
    IF Len(fds) > 3 \/ \E i \in 1..Len(fds) : ~is_fd_valid(st.files, fds[i])
    THEN Parsed(st.fd_pool, st.files, FALSE)
    ELSE insert(st, fds[1],
                Readonly(fds[1],
                         IF Len(fds) >= 2 THEN fds[2] ELSE NoFile,
                         IF Len(fds) >= 3 THEN fds[3] ELSE NoFile))

\* parse_arg_rw_fds over the number of one --rw-fds argument, then the insert
parse_arg_rw_fds(st, fd) ==
    IF ~is_fd_valid(st.files, fd) \/ Len(st.files[fd].data) > 0
    THEN Parsed(st.fd_pool, st.files, FALSE)
    ELSE insert(st, fd, ReadWrite(fd))

RECURSIVE parse_ro(_, _)
parse_ro(st, ro) ==
    IF ro = << >> \/ ~st.ok THEN st ELSE parse_ro(parse_arg_ro_fds(st, Head(ro)), Tail(ro))

RECURSIVE parse_rw(_, _)
parse_rw(st, rw) ==
    IF rw = << >> \/ ~st.ok THEN st ELSE parse_rw(parse_arg_rw_fds(st, Head(rw)), Tail(rw))

\* parse_args: the --ro-fds arguments in order, then the --rw-fds arguments
parse_args(fs, ro, rw) == parse_rw(parse_ro(Parsed(<< >>, fs, TRUE), ro), rw)

\* What every RPC call records about itself; the guest memory is not involved.
Replied(o, a, res, val) ==
    /\ op' = o
    /\ arg' = a
    /\ result' = res
    /\ reply' = val
    /\ pt_calls' = << >>
    /\ ext_calls' = << >>
    /\ UNCHANGED <<tracker_vars, shared_vars, scenario, payload_range, fd_pool, lock_vars>>

\* validate_and_cast_offset
validate_and_cast_offset(offset) == offset >= 0

\* validate_and_cast_size
validate_and_cast_size(size) == ~(size > MAX_REQUESTING_DATA) /\ size >= 0

\* FdService::get_file_config
get_file_config(id) == id \in DOMAIN fd_pool

\* read_into_buf: the bytes from offset on, max_size of them at most
read_into_buf(data, max_size, offset) ==
    LET remaining == IF Len(data) > offset THEN Len(data) - offset ELSE 0
        buf_size == Min(remaining, max_size)
    IN  SubSeq(data, offset + 1, offset + buf_size)

\* A read of a descriptor of the pool: the bytes, or ERROR_IO (always so once the
\* descriptor is closed).
read_reply(o, a, fd, size, offset) ==
    \/ /\ files[fd].open
       /\ Replied(o, a, OkUnit, read_into_buf(files[fd].data, size, offset))
       /\ UNCHANGED files
    \/ /\ Replied(o, a, Err("ERROR_IO"), << >>)
       /\ UNCHANGED files

\* FdService::readFile
readFile(id, offset, size) ==
    LET a == <<id, offset, size>> IN
    IF ~validate_and_cast_size(size) \/ ~validate_and_cast_offset(offset)
    THEN Replied("readFile", a, Err("ILLEGAL_ARGUMENT"), << >>) /\ UNCHANGED files
    ELSE IF ~get_file_config(id)
    THEN Replied("readFile", a, Err("ERROR_UNKNOWN_FD"), << >>) /\ UNCHANGED files
    ELSE read_reply("readFile", a, fd_pool[id].file, size, offset)

\* fsverity::read_merkle_tree and fsverity::read_signature: what the kernel keeps
\* for the file is not modelled; at most one byte of it comes back, or an errno.
fsverity_reply(o, a, fd, size) ==
    \/ /\ files[fd].open
       /\ \E s \in 0..Min(size, 1) : Replied(o, a, OkUnit, [i \in 1..s |-> 0])
       /\ UNCHANGED files
    \/ /\ Replied(o, a, Err("errno"), << >>)
       /\ UNCHANGED files

\* FdService::readFsverityMerkleTree
readFsverityMerkleTree(id, offset, size) ==
    LET a == <<id, offset, size>> IN
    IF ~validate_and_cast_size(size) \/ ~validate_and_cast_offset(offset)
    THEN Replied("readFsverityMerkleTree", a, Err("ILLEGAL_ARGUMENT"), << >>) /\ UNCHANGED files
    ELSE IF ~get_file_config(id)
    THEN Replied("readFsverityMerkleTree", a, Err("ERROR_UNKNOWN_FD"), << >>) /\ UNCHANGED files
    ELSE IF fd_pool[id].kind = "ReadWrite"
    THEN Replied("readFsverityMerkleTree", a, Err("UNSUPPORTED_OPERATION"), << >>)
         /\ UNCHANGED files
    ELSE IF fd_pool[id].alt_merkle_tree # NoFile
    THEN read_reply("readFsverityMerkleTree", a, fd_pool[id].alt_merkle_tree, size, offset)
    ELSE fsverity_reply("readFsverityMerkleTree", a, fd_pool[id].file, size)

\* FdService::readFsveritySignature
readFsveritySignature(id) ==
    LET a == <<id>> IN
    IF ~get_file_config(id)
    THEN Replied("readFsveritySignature", a, Err("ERROR_UNKNOWN_FD"), << >>) /\ UNCHANGED files
    ELSE IF fd_pool[id].kind = "ReadWrite"
    THEN Replied("readFsveritySignature", a, Err("UNSUPPORTED_OPERATION"), << >>)
         /\ UNCHANGED files
    ELSE IF fd_pool[id].alt_signature # NoFile
    THEN read_reply("readFsveritySignature", a, fd_pool[id].alt_signature, MAX_REQUESTING_DATA, 0)
    ELSE fsverity_reply("readFsveritySignature", a, fd_pool[id].file, MAX_REQUESTING_DATA)

\* File::write_at: the first n bytes of buf land at offset, the gap up to offset
\* reads as zeroes.
write_at(data, buf, offset, n) ==
    LET len == IF offset + n > Len(data) /\ n > 0 THEN offset + n ELSE Len(data)
    IN  [i \in 1..len |->
            IF i > offset /\ i <= offset + n THEN buf[i - offset]
            ELSE IF i <= Len(data) THEN data[i]
            ELSE 0]

\* File::set_len: truncated, or extended with zeroes
set_len(data, size) == [i \in 1..size |-> IF i <= Len(data) THEN data[i] ELSE 0]

\* writeFile where a Readonly descriptor is written like a ReadWrite one
writeFile_any_config(id, buf, offset) ==
    LET a == <<id, offset, Len(buf)>> IN
    IF ~get_file_config(id)
    THEN Replied("writeFile", a, Err("ERROR_UNKNOWN_FD"), << >>) /\ UNCHANGED files
    ELSE IF offset < 0 \/ Len(buf) > I32_MAX
    THEN Replied("writeFile", a, Err("ILLEGAL_ARGUMENT"), << >>) /\ UNCHANGED files
    ELSE LET fd == fd_pool[id].file IN
         \/ /\ files[fd].open
            /\ offset + Len(buf) <= MaxFileLen
            /\ \E n \in (IF buf = << >> THEN {0} ELSE 1..Len(buf)) :
                  /\ files' = [files EXCEPT ![fd].data = write_at(@, buf, offset, n)]
                  /\ Replied("writeFile", a, OkUnit, <<n>>)
         \/ /\ Replied("writeFile", a, Err("ERROR_IO"), << >>)
            /\ UNCHANGED files

\* FdService::writeFile
writeFile(id, buf, offset) ==
    LET a == <<id, offset, Len(buf)>> IN
    IF ~get_file_config(id)
    THEN Replied("writeFile", a, Err("ERROR_UNKNOWN_FD"), << >>) /\ UNCHANGED files
    ELSE IF fd_pool[id].kind = "Readonly"
    THEN Replied("writeFile", a, Err("INVALID_OPERATION"), << >>) /\ UNCHANGED files
    ELSE IF offset < 0 \/ Len(buf) > I32_MAX
    THEN Replied("writeFile", a, Err("ILLEGAL_ARGUMENT"), << >>) /\ UNCHANGED files
    ELSE LET fd == fd_pool[id].file IN
         \/ /\ files[fd].open
            /\ offset + Len(buf) <= MaxFileLen
            /\ \E n \in (IF buf = << >> THEN {0} ELSE 1..Len(buf)) :
                  /\ files' = [files EXCEPT ![fd].data = write_at(@, buf, offset, n)]
                  /\ Replied("writeFile", a, OkUnit, <<n>>)
         \/ /\ Replied("writeFile", a, Err("ERROR_IO"), << >>)
            /\ UNCHANGED files

\* FdService::resize
resize(id, size) ==
    LET a == <<id, size>> IN
    IF ~get_file_config(id)
    THEN Replied("resize", a, Err("ERROR_UNKNOWN_FD"), << >>) /\ UNCHANGED files
    ELSE IF fd_pool[id].kind = "Readonly"
    THEN Replied("resize", a, Err("INVALID_OPERATION"), << >>) /\ UNCHANGED files
    ELSE IF size < 0
    THEN Replied("resize", a, Err("ILLEGAL_ARGUMENT"), << >>) /\ UNCHANGED files
    ELSE LET fd == fd_pool[id].file IN
         \/ /\ files[fd].open
            /\ size <= MaxFileLen
            /\ files' = [files EXCEPT ![fd].data = set_len(@, size)]
            /\ Replied("resize", a, OkUnit, << >>)
         \/ /\ Replied("resize", a, Err("ERROR_IO"), << >>)
            /\ UNCHANGED files

\* FdService::getFileSize (ERROR_FILE_TOO_LARGE needs a length above i64::MAX, which
\* no file has)
getFileSize(id) ==
    LET a == <<id>> IN
    IF ~get_file_config(id)
    THEN Replied("getFileSize", a, Err("ERROR_UNKNOWN_FD"), << >>) /\ UNCHANGED files
    ELSE IF fd_pool[id].kind = "ReadWrite"
    THEN Replied("getFileSize", a, Err("UNSUPPORTED_OPERATION"), << >>) /\ UNCHANGED files
    ELSE LET fd == fd_pool[id].file IN
         \/ /\ files[fd].open
            /\ Replied("getFileSize", a, OkUnit, <<Len(files[fd].data)>>)
            /\ UNCHANGED files
         \/ /\ Replied("getFileSize", a, Err("ERROR_IO"), << >>)
            /\ UNCHANGED files

\* The descriptors the process inherits, and what their files hold.
InheritedFiles == (3 :> OpenFile(<<1, 0>>)) @@ (4 :> OpenFile(<< >>)) @@ (5 :> OpenFile(<< >>))
                  @@ (6 :> OpenFile(<<1>>)) @@ (7 :> OpenFile(<<1, 1>>))

\* Command lines: the --ro-fds arguments, then the --rw-fds arguments.
CommandLines ==
    { << << <<3>> >>, <<5>> >>,
      << << <<3, 6>> >>, <<4, 5>> >>,
      << << <<3, 6, 7>>, <<4>> >>, <<4>> >>,
      << << <<3>>, <<3, 6>> >>, <<5>> >>,
      << << <<3, 4>> >>, <<4>> >>,
      << << <<3>> >>, <<7>> >>,
      << << <<3, 8>> >>, << >> >> }

FdIdArgs == { 3, 4, 5, 9 }

OffsetArgs == { -1, 0, 1 }

SizeArgs == { -1, 0, 2, MAX_REQUESTING_DATA + 1 }

BufArgs == { << >>, <<1>>, <<1, 1>> }

\* The service as main starts it: parse_args succeeded.
InitFd ==
    /\ one_context
    /\ statics(FALSE)
    /\ new(ScenarioTotal, ScenarioMmio, FALSE, NoPayload)
    /\ \E cl \in CommandLines :
          LET args == parse_args(InheritedFiles, cl[1], cl[2]) IN
          /\ args.ok
          /\ fd_pool = args.fd_pool
          /\ files = args.files
    /\ reply = << >>

NextFd ==
    \/ \E id \in FdIdArgs, offset \in OffsetArgs, size \in SizeArgs : readFile(id, offset, size)
    \/ \E id \in FdIdArgs, offset \in OffsetArgs, size \in SizeArgs :
          readFsverityMerkleTree(id, offset, size)
    \/ \E id \in FdIdArgs : readFsveritySignature(id)
    \/ \E id \in FdIdArgs, buf \in BufArgs, offset \in OffsetArgs : writeFile(id, buf, offset)
    \/ \E id \in FdIdArgs, size \in SizeArgs : resize(id, size)
    \/ \E id \in FdIdArgs : getFileSize(id)

SpecFd == InitFd /\ [][NextFd]_vars

----------------------------------------------------------------------------
(* Properties *)

\* The range an alloc_range / alloc_range_mut / shrink / map_mmio_range call was given.
ArgRange(a) == Range(a[1], a[2])

OverlapsRegion(r, rs) == \E i \in 1..Len(rs) : overlaps(r, rs[i].range)

RegionsDisjoint ==
    \A i, j \in 1..Len(regions) : i # j => ~overlaps(regions[i].range, regions[j].range)

RegionsWithinTotal == \A i \in 1..Len(regions) : is_within(regions[i].range, total)

MmioDisjoint ==
    \A i, j \in 1..Len(mmio_regions) : i # j => ~overlaps(mmio_regions[i], mmio_regions[j])

MmioWithinMmioRange == \A i \in 1..Len(mmio_regions) : is_within(mmio_regions[i], mmio_range)

\* C1: in every reachable state the recorded regions are pairwise non-overlapping
\* and contained in total, and the recorded MMIO ranges are pairwise
\* non-overlapping and contained in mmio_range.
C1_CatalogsDisjointAndContained ==
    /\ RegionsDisjoint
    /\ RegionsWithinTotal
    /\ MmioDisjoint
    /\ MmioWithinMmioRange

\* Two regions, an MMIO range and a shrunk total, the last call having failed.
C1_Witness ==
    /\ Len(regions) >= 2
    /\ Len(mmio_regions) >= 1
    /\ total.end < ScenarioTotal.end
    /\ result.tag = "Err"

\* C2: alloc_range / alloc_range_mut of a range within total that overlaps a
\* recorded region returns Overlaps, leaves regions, MMIO ranges, total and the
\* page table as they were, and issues no page-table operation.
C2_OverlapRejectedUnchanged ==
    [][ ( /\ op' \in {"alloc_range", "alloc_range_mut"}
          /\ is_within(ArgRange(arg'), total)
          /\ OverlapsRegion(ArgRange(arg'), regions) )
        => ( /\ result' = Err("Overlaps")
             /\ regions' = regions
             /\ mmio_regions' = mmio_regions
             /\ total' = total
             /\ pt' = pt
             /\ pt_calls' = <<>> ) ]_vars

\* An overlapping in-range request was refused.
C2_Witness ==
    /\ op \in {"alloc_range", "alloc_range_mut"}
    /\ result = Err("Overlaps")
    /\ is_within(ArgRange(arg), total)
    /\ OverlapsRegion(ArgRange(arg), regions)
    /\ Len(regions) >= 1

\* An in-range, non-overlapping request.
Fits(r, rs, t) == is_within(r, t) /\ ~OverlapsRegion(r, rs)

\* C3: the regions catalog never holds more than 5 entries; an in-range,
\* non-overlapping allocation succeeds while fewer than 5 are recorded (unless the
\* page table fails), and with 5 recorded it returns Full, without a panic and
\* without changing the catalog.
C3_CapacityFive ==
    /\ [](Len(regions) <= 5)
    /\ [][ ( /\ op' \in {"alloc_range", "alloc_range_mut"}
             /\ Fits(ArgRange(arg'), regions, total) )
           => IF Len(regions) < 5
              THEN \/ result' = Err("FailedToMap") /\ regions' = regions
                   \/ /\ result' = Ok(ArgRange(arg'))
                      /\ Len(regions') = Len(regions) + 1
              ELSE result' = Err("Full") /\ regions' = regions ]_vars

\* Five non-empty regions are recorded and a sixth, fitting one was refused as Full.
C3_Witness ==
    /\ Len(regions) = 5
    /\ \A i \in 1..5 : regions[i].range.start < regions[i].range.end
    /\ op \in {"alloc_range", "alloc_range_mut"}
    /\ Fits(ArgRange(arg), regions, total)
    /\ arg[1] < arg[2]
    /\ result = Err("Full")

\* The error the three conditions of shrink give, taken in the order they are listed.
ShrinkError(r, t, rs) ==
    IF r.start # t.start THEN "DifferentBaseAddress"
    ELSE IF r.end > t.end THEN "SizeTooLarge"
    ELSE IF \E i \in 1..Len(rs) : ~is_within(rs[i].range, r) THEN "SizeTooSmall"
    ELSE "None"

\* C4: shrink fails with DifferentBaseAddress when the start differs, with
\* SizeTooLarge when the end exceeds total's, with SizeTooSmall when a recorded
\* region is not contained in the new range (the first of these that applies);
\* a failing shrink leaves total and both catalogs unchanged.
C4_ShrinkFailures ==
    [][ op' = "shrink"
        => /\ ShrinkError(ArgRange(arg'), total, regions) # "None"
              => result' = Err(ShrinkError(ArgRange(arg'), total, regions))
           /\ result'.tag = "Err"
              => /\ total' = total
                 /\ regions' = regions
                 /\ mmio_regions' = mmio_regions ]_vars

\* A shrink that would have cut off a recorded region was refused.
C4_Witness ==
    /\ op = "shrink"
    /\ result = Err("SizeTooSmall")
    /\ ArgRange(arg).start = total.start
    /\ ArgRange(arg).end < total.end
    /\ \E i \in 1..Len(regions) : ~is_within(regions[i].range, ArgRange(arg))

\* C5: a shrink to a same-base range that is not larger and contains every
\* recorded region succeeds, sets total to it and leaves both catalogs unchanged;
\* after it, the same shrink would succeed again and leave total as it is.
C5_ShrinkSucceedsIdempotent ==
    /\ [][ ( /\ op' = "shrink"
             /\ ShrinkError(ArgRange(arg'), total, regions) = "None" )
           => /\ result' = OkUnit
              /\ total' = ArgRange(arg')
              /\ regions' = regions
              /\ mmio_regions' = mmio_regions ]_vars
    /\ []( (op = "shrink" /\ result.tag = "Ok")
           => /\ total = ArgRange(arg)
              /\ shrink_check(ArgRange(arg)) = "Ok" )

\* A shrink to a strictly smaller range succeeded with a region recorded.
C5_Witness ==
    /\ op = "shrink"
    /\ result = OkUnit
    /\ total = ArgRange(arg)
    /\ total.end < ScenarioTotal.end
    /\ Len(regions) >= 1

\* What each call of the scenario returns.
ScenarioResults ==
    << Ok(Range(\H1000, \H2000)), Err("Overlaps"), OkUnit, Err("Overlaps"),
       OkUnit, Err("SizeTooSmall") >>

\* C6: from a fresh tracker with total 0x1000..0x5000 and MMIO 0x9000..0xA000 the
\* six calls of the scenario return Ok, Overlaps, Ok, Overlaps, Ok, SizeTooSmall,
\* and leave one region, one MMIO range and total = 0x1000..0x3000.
C6_Scenario ==
    /\ scenario >= 1 => result = ScenarioResults[scenario]
    /\ scenario = Len(ScenarioCalls)
       => /\ Len(regions) = 1
          /\ Len(mmio_regions) = 1
          /\ total = Range(\H1000, \H3000)

\* The whole scenario was run.
C6_Witness == scenario = Len(ScenarioCalls)

\* The error the conditions of map_mmio_range give, taken in the order they are listed.
MmioError(r, m, rs) ==
    IF ~is_within(r, m) THEN "OutOfRange"
    ELSE IF \E i \in 1..Len(rs) : overlaps(r, rs[i]) THEN "Overlaps"
    ELSE IF Len(rs) = 5 THEN "Full"
    ELSE "None"

\* C7: map_mmio_range returns OutOfRange for a range not contained in mmio_range,
\* Overlaps for one that intersects a recorded MMIO range, Full when 5 are
\* recorded (the first of these that applies), FailedToMap when the page table
\* fails; the range is appended only when the page-table operation succeeded,
\* and every error leaves the MMIO catalog unchanged.
C7_MapMmioErrors ==
    [][ op' = "map_mmio_range"
        => /\ MmioError(ArgRange(arg'), mmio_range, mmio_regions) # "None"
              => /\ result' = Err(MmioError(ArgRange(arg'), mmio_range, mmio_regions))
                 /\ pt_calls' = <<>>
           /\ MmioError(ArgRange(arg'), mmio_range, mmio_regions) = "None"
              => \/ result' = Err("FailedToMap") /\ Len(pt_calls') = 1
                 \/ /\ result' = OkUnit
                    /\ Len(pt_calls') = 1
                    /\ mmio_regions' = Append(mmio_regions, ArgRange(arg'))
           /\ result'.tag = "Err" => mmio_regions' = mmio_regions ]_vars

\* Five non-empty MMIO ranges are recorded and a sixth, fitting one was refused as Full.
C7_Witness ==
    /\ Len(mmio_regions) = 5
    /\ \A i \in 1..5 : mmio_regions[i].start < mmio_regions[i].end
    /\ op = "map_mmio_range"
    /\ result = Err("Full")
    /\ arg[1] < arg[2]
    /\ MmioError(ArgRange(arg), mmio_range, mmio_regions) = "Full"

\* The leaf entry of a page is lazily registered: marker set, VALID clear.
LazilyRegistered(flags) == "MMIO_LAZY_MAP_FLAG" \in flags /\ "VALID" \notin flags

\* What C8 says of a fault on a page that is not lazily registered.
FaultRefused ==
    /\ result' = Err("InvalidPte")
    /\ ext_calls' = <<>>
    /\ pt' = pt
    /\ guard_mapped' = guard_mapped

\* C8 as stated: a fault on a page whose leaf entry is not lazily registered
\* returns InvalidPte, issues no guard-map call and leaves the page table unchanged.
C8_AsStated ==
    [][ ( /\ op' = "handle_mmio_fault"
          /\ ~LazilyRegistered(pt[page_4kb_of(arg'[1])]) )
        => FaultRefused ]_vars

\* C8, what the code does: with an MMIO-guard capability such a fault returns
\* InvalidPte, issues no guard-map call and leaves the page table unchanged;
\* without the capability get_mmio_guard().unwrap() panics before the entry is
\* looked at, also without a hypervisor call or a change.
C8_FaultOnNonLazyPage ==
    [][ ( /\ op' = "handle_mmio_fault"
          /\ ~LazilyRegistered(pt[page_4kb_of(arg'[1])]) )
        => IF mmio_guard
           THEN FaultRefused
           ELSE /\ result'.tag = "Panic"
                /\ ext_calls' = <<>>
                /\ pt' = pt
                /\ guard_mapped' = guard_mapped ]_vars

\* With the guard present, a fault on a page already mapped valid was refused.
C8_Witness ==
    /\ mmio_guard
    /\ op = "handle_mmio_fault"
    /\ result = Err("InvalidPte")
    /\ pt[page_4kb_of(arg[1])] = DEVICE
    /\ page_4kb_of(arg[1]) \in guard_mapped

\* How many granules of the blocks the MemorySharer records start at address a.
Held(a) ==
    LET fs == shared_memory.frames
        covers(f) == \E i \in 1..Len(step_by(f.base, f.base + f.layout.size, shared_memory.granule)) :
                        step_by(f.base, f.base + f.layout.size, shared_memory.granule)[i] = a
    IN  Cardinality({i \in 1..Len(fs) : covers(fs[i])})

\* C9: with a sharing capability, every address was passed to share exactly as
\* often as to unshare, apart from the granules of the blocks the installed
\* MemorySharer still records; so when a MemorySharer has been dropped the two
\* multisets are equal, and the dropped MemorySharer records no block.
C9_SharerAccounting ==
    (mem_sharer /\ Running)
    => /\ \A a \in HeapAddrs : shares[a] = unshares[a] + Held(a)
       /\ ~shared_memory.some => shares = unshares
       /\ dropped.frames = <<>>

\* A MemorySharer that had shared a block of two granules was dropped.
C9_Witness ==
    /\ mem_sharer
    /\ op = "unshare_all_memory"
    /\ result = OkUnit
    /\ ~shared_memory.some
    /\ Len(Addrs(ext_calls, "dealloc")) = 1
    /\ Len(Addrs(ext_calls, "unshare")) = 2
    /\ \E a \in HeapAddrs : shares[a] >= 1
    /\ shares = unshares

\* The outcomes of the pool's alloc_aligned calls a call made, in order.
PoolTries(calls) == Addrs(calls, "alloc_aligned")

Refills(calls) == Cardinality({i \in 1..Len(calls) : calls[i] = <<"refill">>})

\* C10: alloc_shared tries the pool first; only when that fails and a
\* MemorySharer is installed it refills once and retries once; without a
\* MemorySharer, or when the retry fails, it aborts.  It returns Ok with a
\* non-null pointer or does not return: never an Err, never a null pointer.
C10_AllocSharedOrAbort ==
    [][ (op' = "alloc_shared" /\ shared_pool.set /\ arg'[1] # 0)
        => LET tries == PoolTries(ext_calls')
               n == Refills(ext_calls')
           IN  /\ result'.tag \in {"Ok", "Panic"}
               /\ result'.tag = "Ok" => result'.range.start = tries[Len(tries)]
                                        /\ result'.range.start # None
                                        /\ result'.range.start # 0
               /\ Len(tries) \in {1, 2}
               /\ n = (IF tries[1] = None /\ shared_memory.some THEN 1 ELSE 0)
               /\ Len(tries) = 2 => n = 1
               /\ (tries[1] = None /\ ~shared_memory.some) => result'.tag = "Panic"
               /\ tries[Len(tries)] = None => result'.tag = "Panic" ]_vars

\* After a refill the retry failed as well, and alloc_shared aborted.
C10_Witness ==
    /\ op = "alloc_shared"
    /\ result = Panic("handle_alloc_error")
    /\ Refills(ext_calls) = 1
    /\ PoolTries(ext_calls) = <<None, None>>

\* A call of the given kind is among the calls.
HasCall(calls, tag) == \E i \in 1..Len(calls) : calls[i][1] = tag

\* The pool was set by init_dynamic_shared_pool, its MemorySharer is installed
\* and the hypervisor shares memory.
DynamicMode ==
    /\ pool_init = "init_dynamic_shared_pool"
    /\ shared_memory.some
    /\ mem_sharer

\* A refill of the call, if there was one, got its memory and shared it.
RefillCompleted(calls) == Refills(calls) = 1 => HasCall(calls, "add_frame")

\* C11 as stated: in dynamic mode every alloc_shared succeeds (as long as the
\* global allocator hands out the memory a refill asks for and the hypervisor
\* shares it).
C11_AsStated ==
    [][ ( /\ op' = "alloc_shared"
          /\ DynamicMode
          /\ arg'[1] # 0
          /\ RefillCompleted(ext_calls') )
        => result'.tag = "Ok" ]_vars

\* C11, the part that holds: an alloc_shared(L) that follows a dealloc_shared of
\* a buffer of layout L succeeds from the pool, without a refill: the blocks the
\* MemorySharer records and the granules shared are as before.
C11_CycleReusesPool ==
    [][ ( /\ op = "dealloc_shared"
          /\ op' = "alloc_shared"
          /\ arg' = <<arg[2], arg[3]>> )
        => /\ result'.tag = "Ok"
           /\ Refills(ext_calls') = 0
           /\ shared_memory' = shared_memory
           /\ shares' = shares
           /\ heap' = heap ]_vars

InitOps == {"init_dynamic_shared_pool", "init_heap_shared_pool", "init_static_shared_pool"}

\* C12 as stated: init_dynamic_shared_pool returns SharedMemorySetFailure when a
\* MemorySharer is installed; otherwise each of the three initialisations
\* returns SharedPoolSetFailure when the pool is already set (init_static_shared_pool
\* is given a range it can allocate, and no hypervisor call fails); the pool is
\* never replaced or changed.
C12_AsStated ==
    [][ ( /\ op' \in InitOps
          /\ shared_pool.set
          /\ result'.tag # "Panic"
          /\ result'.err \notin {"OutOfRange", "Overlaps", "Full", "FailedToMap"} )
        => /\ shared_pool' = shared_pool
           /\ result' = IF op' = "init_dynamic_shared_pool" /\ shared_memory.some
                        THEN Err("SharedMemorySetFailure")
                        ELSE Err("SharedPoolSetFailure") ]_vars

\* C12, amended: the pool is set at most once; when it is set,
\* init_dynamic_shared_pool and init_heap_shared_pool return
\* SharedMemorySetFailure if a MemorySharer is installed and SharedPoolSetFailure
\* if none is, init_static_shared_pool returns SharedPoolSetFailure once its range
\* is allocated (an error of alloc_mut or the panic on an empty range comes
\* first), and no call replaces the pool or changes its contents.
C12_PoolSetOnce ==
    /\ [][ shared_pool.set => shared_pool'.set /\ pool_init' = pool_init ]_vars
    /\ [][ (op' \in InitOps /\ shared_pool.set)
           => /\ shared_pool' = shared_pool
              /\ result'.tag # "Ok"
              /\ (op' # "init_static_shared_pool" /\ result'.tag = "Err")
                 => result'.err = IF shared_memory.some THEN "SharedMemorySetFailure"
                                  ELSE "SharedPoolSetFailure"
              /\ (op' = "init_static_shared_pool" /\ result'.tag = "Err")
                 => result'.err = IF Len(regions') > Len(regions) THEN "SharedPoolSetFailure"
                                  ELSE IF pt_calls' # <<>> THEN "FailedToMap"
                                  ELSE check(MemoryRegion(ArgRange(arg'), "ReadWrite")) ]_vars

\* A pool that holds frames was left as it was by each kind of failing
\* initialisation; here by init_heap_shared_pool with a MemorySharer installed.
C12_Witness ==
    /\ op = "init_heap_shared_pool"
    /\ result = Err("SharedMemorySetFailure")
    /\ shared_pool.set
    /\ shared_pool.free_list # EmptyFreeList
    /\ pool_init # "init_heap_shared_pool"

\* The pages flush_dirty_pages is responsible for: those of the ReadWrite regions
\* and of the payload range.
WritablePages ==
    UNION {PagesOf(regions[i].range) : i \in {k \in 1..Len(regions) : regions[k].mem_type = "ReadWrite"}}
    \cup (IF payload_range.some THEN PagesOf(payload_range.range) ELSE {})

\* The positions of the calls of one kind among the calls.
Positions(calls, tag) == {i \in 1..Len(calls) : calls[i][1] = tag}

\* C13: dropping the MemoryTracker disables dirty-bit management, then flushes
\* the dirty pages, then unshares all memory; when the drop has completed no page
\* of a ReadWrite region or of the payload is dirty, no MemorySharer is
\* installed and every granule that was shared has been unshared.
C13_DropFlushesThenUnshares ==
    op = "drop"
    => /\ ext_calls[1] = <<"set_dbm_enabled", 0>>
       /\ ext_calls[2][1] = "flush_dirty_pages"
       /\ \A i \in Positions(ext_calls, "unshare") \cup Positions(ext_calls, "dealloc") :
             i > 3 /\ ext_calls[3] = <<"unshare_all_memory", 0>>
       /\ result = OkUnit
          => /\ ext_calls[3] = <<"unshare_all_memory", 0>>
             /\ \A p \in WritablePages : ~Dirty(pt[p])
             /\ ~shared_memory.some
             /\ shares = unshares
             /\ dropped.frames = <<>>

\* A tracker with a payload was dropped to the end: two dirty pages, one of a
\* ReadWrite region and one of the payload, were written back and two granules
\* were unshared.
C13_Witness ==
    /\ op = "drop"
    /\ result = OkUnit
    /\ payload_range.some
    /\ Len(pt_calls) = 3
    /\ ext_calls[2] = <<"flush_dirty_pages", 2>>
    /\ Len(Addrs(ext_calls, "unshare")) = 2

\* The granule that starts at address a is shared with the host: shared more
\* often than unshared.
SharedNow(a) == shares[a] > unshares[a]

\* The byte at address a lies in a granule that is shared with the host.  The
\* drop of a MemorySharer unshares all it shared, so what is shared was shared
\* with the granule size of the MemorySharer that is installed.
InSharedGranule(a) ==
    LET g == IF shared_memory.some THEN shared_memory.granule ELSE 1
        base == a - (a % g)
    IN  base \in HeapAddrs /\ SharedNow(base)

\* C14 as stated: with a sharing capability and a pool initialised dynamically,
\* every buffer alloc_shared returns lies within granules that are shared with
\* the host when it is returned.
C14_AsStated ==
    ( /\ mem_sharer
      /\ pool_init = "init_dynamic_shared_pool"
      /\ op = "alloc_shared"
      /\ result.tag = "Ok" )
    => \A a \in result.range.start..(result.range.start + arg[1] - 1) : InSharedGranule(a)

\* C14, while the MemorySharer that was installed first is still installed:
\* every buffer alloc_shared returns, and every buffer handed out and not yet
\* deallocated, lies within shared granules.
C14_SharedWhileSharerLives ==
    ( /\ mem_sharer
      /\ pool_init = "init_dynamic_shared_pool"
      /\ shared_memory.some
      /\ ~dropped.some
      /\ unshares = [a \in HeapAddrs |-> 0]
      /\ Running )
    => \A b \in buffers : \A a \in BlockBytes(b) : InSharedGranule(a)

\* The operations that drop a MemorySharer: unshare_all_memory, the drop of the
\* MemoryTracker, and an initialisation that replaces the installed MemorySharer.
DropsSharer(o) ==
    o \in {"unshare_all_memory", "drop", "init_dynamic_shared_pool", "init_heap_shared_pool"}

RangeOps ==
    {"shrink", "alloc_range", "alloc_range_mut", "alloc", "alloc_mut", "map_mmio_range",
     "init_static_shared_pool"}

\* C16 as stated: whatever their arguments, shrink, alloc_range, alloc_range_mut,
\* alloc, alloc_mut, map_mmio_range and init_static_shared_pool return Ok or a
\* MemoryTrackerError; none of them panics.
C16_AsStated == op \in RangeOps => result.tag \in {"Ok", "Err"}

\* C16, the operations that take a range and do no arithmetic on it: shrink,
\* alloc_range, alloc_range_mut and map_mmio_range return Ok or an error for
\* every range, empty and inverted ones included.
C16_RangeOpsReturn ==
    op \in {"shrink", "alloc_range", "alloc_range_mut", "map_mmio_range"}
    => result.tag \in {"Ok", "Err"}

----------------------------------------------------------------------------
(* fd_server *)

FdOps ==
    { "readFile", "readFsverityMerkleTree", "readFsveritySignature", "writeFile", "resize",
      "getFileSize" }

\* The call just made named an id that is not in the pool.
UnknownIdCalled == op' \in FdOps /\ arg'[1] \notin DOMAIN fd_pool

\* The call just made named a Readonly id.
ReadonlyIdCalled ==
    op' \in FdOps /\ arg'[1] \in DOMAIN fd_pool /\ fd_pool[arg'[1]].kind = "Readonly"

----------------------------------------------------------------------------
(* MMIO: lazy mapping, faults, unmapping *)

\* The call just made, with that result.
Returned(o, res) == op' = o /\ result' = res

\* C18: a successful handle_mmio_fault(addr) turns exactly the page of addr from
\* lazily registered into mapped-valid and changes no other page; it issues exactly
\* one guard-map call, for the base of that page.  The call comes after the check
\* (a refused fault issued none) and before the device mapping (a fault the
\* hypervisor refused has not mapped anything), so that with a guard capability a
\* VALID page with the lazy marker has been guard-mapped (nothing in this
\* specification guard-unmaps).
C18_FaultMapsOnePage ==
    /\ [][ Returned("handle_mmio_fault", OkUnit)
           => LET page == page_4kb_of(arg'[1]) IN
              /\ LazilyRegistered(pt[page])
              /\ pt'[page] = DEVICE
              /\ \A q \in Pages \ {page} : pt'[q] = pt[q]
              /\ ext_calls' = << <<"mmio_guard_map", page>> >>
              /\ pt_calls' = << PtCall("modify_range", Range(page, page + PAGE_SIZE)),
                                PtCall("map_device", Range(page, page + PAGE_SIZE)) >>
              /\ guard_mapped' = guard_mapped \cup {page}
              /\ mmio_regions' = mmio_regions ]_vars
    /\ [][ Returned("handle_mmio_fault", Err("InvalidPte"))
           => (ext_calls' = << >> /\ pt' = pt /\ guard_mapped' = guard_mapped) ]_vars
    /\ [][ Returned("handle_mmio_fault", Err("Hypervisor"))
           => (Len(pt_calls') = 1 /\ pt' = pt /\ guard_mapped' = guard_mapped) ]_vars
    /\ [](mmio_guard
           => \A p \in Pages :
                 ("MMIO_LAZY_MAP_FLAG" \in pt[p] /\ "VALID" \in pt[p]) => p \in guard_mapped)

\* A fault made one page of a two-page MMIO range valid; the other is still lazy.
C18_Witness ==
    /\ op = "handle_mmio_fault"
    /\ result = OkUnit
    /\ arg = <<\HA000>>
    /\ pt[\HA000] = DEVICE
    /\ \HA000 \in guard_mapped
    /\ pt[\HB000] = DEVICE_LAZY
    /\ \HB000 \notin guard_mapped

\* C19: a successful map_mmio_range leaves every page of the range lazily
\* registered and issues no hypervisor call when there is a guard capability, and
\* leaves every page of it mapped-valid when there is none; in both
\* configurations a call that passes the three checks returns Ok unless the page
\* table fails.
C19_StrategyByGuard ==
    /\ [][ Returned("map_mmio_range", OkUnit)
           => LET r == Range(arg'[1], arg'[2]) IN
              /\ ext_calls' = << >>
              /\ guard_mapped' = guard_mapped
              /\ pt_calls' = << PtCall(IF mmio_guard THEN "map_device_lazy" ELSE "map_device", r) >>
              /\ \A p \in PagesOf(r) :
                    IF mmio_guard THEN LazilyRegistered(pt'[p]) ELSE pt'[p] = DEVICE
              /\ \A q \in Pages \ PagesOf(r) : pt'[q] = pt[q] ]_vars
    /\ [][ (op' = "map_mmio_range" /\ check_mmio(Range(arg'[1], arg'[2])) = "Ok")
           => result' \in {OkUnit, Err("FailedToMap")} ]_vars

\* Without a guard capability a two-page MMIO range was mapped valid at once.
C19_Witness ==
    /\ ~mmio_guard
    /\ op = "map_mmio_range"
    /\ result = OkUnit
    /\ arg = <<\HA000, \HC000>>
    /\ pt[\HA000] = DEVICE
    /\ pt[\HB000] = DEVICE
    /\ guard_mapped = {}

\* The pages of recorded MMIO ranges whose leaf entry is VALID.
ValidMmioPages ==
    {p \in Pages : "VALID" \in pt[p] /\ \E i \in 1..Len(mmio_regions) : p \in PagesOf(mmio_regions[i])}

\* The pages the call just made issued a guard-unmap call for.
UnmapCalled == {ext_calls'[i][2] : i \in 1..Len(ext_calls')}

\* What mmio_unmap_all never touches: the page table and both catalogs.
UnmapFrame == pt' = pt /\ mmio_regions' = mmio_regions /\ regions' = regions /\ total' = total

\* C20 as stated: with a guard capability mmio_unmap_all issues a guard-unmap call
\* for exactly the VALID pages of the recorded MMIO ranges and changes no page-table
\* entry nor the MMIO catalog; without one it issues no call and returns Ok.
C20_AsStated ==
    [][ op' = "mmio_unmap_all"
        => IF mmio_guard
           THEN UnmapCalled = ValidMmioPages /\ UnmapFrame
           ELSE ext_calls' = << >> /\ result' = OkUnit /\ UnmapFrame ]_vars

\* C20, amended: with a guard capability mmio_unmap_all issues guard-unmap calls
\* only, and only for VALID pages of recorded MMIO ranges; when it returns Ok it has
\* issued one for each of them, once per recorded range that touches the page, and
\* they are no longer guard-mapped; when the hypervisor refuses a call it returns
\* FailedToUnmap at once, the pages of the calls before it unmapped.  It changes no
\* page-table entry and no catalog.  Without a guard capability it issues no call
\* and returns Ok.
C20_UnmapsValidPages ==
    [][ op' = "mmio_unmap_all"
        => /\ UnmapFrame
           /\ result' \in {OkUnit, Err("FailedToUnmap")}
           /\ \A i \in 1..Len(ext_calls') : ext_calls'[i][1] = "mmio_guard_unmap"
           /\ UnmapCalled \subseteq ValidMmioPages
           /\ IF ~mmio_guard
              THEN ext_calls' = << >> /\ result' = OkUnit /\ guard_mapped' = guard_mapped
              ELSE IF result' = OkUnit
              THEN /\ UnmapCalled = ValidMmioPages
                   /\ \A p \in ValidMmioPages :
                         Cardinality({i \in 1..Len(ext_calls') : ext_calls'[i][2] = p})
                            = Cardinality({i \in 1..Len(mmio_regions) : p \in PagesOf(mmio_regions[i])})
                   /\ guard_mapped' = guard_mapped \ ValidMmioPages
              ELSE /\ ext_calls' # << >>
                   /\ guard_mapped' =
                         guard_mapped \ {ext_calls'[i][2] : i \in 1..(Len(ext_calls') - 1)} ]_vars

\* mmio_unmap_all returned Ok after guard-unmapping the one VALID page of a two-page
\* range; both entries are as they were.
C20_Witness ==
    /\ mmio_guard
    /\ op = "mmio_unmap_all"
    /\ result = OkUnit
    /\ ext_calls = << <<"mmio_guard_unmap", \HA000>> >>
    /\ pt[\HA000] = DEVICE
    /\ pt[\HB000] = DEVICE_LAZY
    /\ Range(\HA000, \HC000) \in {mmio_regions[i] : i \in 1..Len(mmio_regions)}
    /\ guard_mapped = {}

----------------------------------------------------------------------------
(* Drop of the MemorySharer, failing initialisations, bring-up modes *)

\* The unshare and dealloc calls among the calls of an operation, in order.
DropTrace(calls) == SelectSeq(calls, LAMBDA c : c[1] \in {"unshare", "dealloc"})

\* How many of the first k calls are dealloc calls.
DeallocsUpTo(cs, k) == Cardinality({j \in 1..k : cs[j][1] = "dealloc"})

\* How many of the calls before the k-th unshare address a.
UnsharedBefore(cs, k, a) == Cardinality({j \in 1..(k - 1) : cs[j] = <<"unshare", a>>})

\* C21: an operation that drops the installed MemorySharer releases its blocks in
\* the reverse order of the refills that recorded them (all of them unless an
\* unshare call fails), every unshare call is for a granule of the block that is
\* released next, and when a block is released none of its granules is still
\* shared: each was unshared as often as it had been shared.
C21_DropUnsharesThenFrees ==
    [][ LET cs == DropTrace(ext_calls')
            fr == shared_memory.frames
            deallocs == Addrs(cs, "dealloc")
            granules(b) == step_by(b.base, b.base + b.layout.size, shared_memory.granule)
        IN  cs # << >>
            => /\ shared_memory.some
               /\ DropsSharer(op')
               /\ Len(deallocs) <= Len(fr)
               /\ \A i \in 1..Len(deallocs) : deallocs[i] = fr[Len(fr) + 1 - i].base
               /\ result'.tag # "Panic" => Len(deallocs) = Len(fr)
               /\ \A k \in 1..Len(cs) :
                     /\ DeallocsUpTo(cs, k - 1) < Len(fr)
                     /\ LET b == fr[Len(fr) - DeallocsUpTo(cs, k - 1)]
                            g == granules(b)
                        IN  IF cs[k][1] = "unshare"
                            THEN mem_sharer /\ \E i \in 1..Len(g) : g[i] = cs[k][2]
                            ELSE /\ cs[k][2] = b.base
                                 /\ b \in heap /\ b \notin heap'
                                 /\ mem_sharer
                                       => \A i \in 1..Len(g) :
                                             /\ shares[g[i]] >= 1
                                             /\ shares[g[i]] = unshares[g[i]] + UnsharedBefore(cs, k, g[i]) ]_vars

\* With a sharing capability, a MemorySharer of two blocks was dropped: two dealloc
\* calls, each after the unshare call of its block.
C21_Witness ==
    /\ mem_sharer
    /\ op = "unshare_all_memory"
    /\ result = OkUnit
    /\ Len(DropTrace(ext_calls)) = 4
    /\ DropTrace(ext_calls)[1][1] = "unshare"
    /\ DropTrace(ext_calls)[2] = <<"dealloc", DropTrace(ext_calls)[1][2]>>
    /\ DropTrace(ext_calls)[3][1] = "unshare"
    /\ DropTrace(ext_calls)[4] = <<"dealloc", DropTrace(ext_calls)[3][2]>>
    /\ shares = unshares

\* C22 as stated: a failing init_dynamic_shared_pool, init_heap_shared_pool or
\* init_static_shared_pool leaves the MemorySharer singleton (and what it shares),
\* the pool and the regions catalog as they were.
C22_AsStated ==
    [][ (op' \in InitOps /\ result'.tag = "Err")
        => /\ shared_memory' = shared_memory
           /\ shares' = shares
           /\ unshares' = unshares
           /\ heap' = heap
           /\ shared_pool' = shared_pool
           /\ regions' = regions ]_vars

\* C23 as stated: while the pool is the one a successful init_static_shared_pool
\* set, no MemorySharer is installed, and no alloc_shared refills from the heap.
C23_AsStated ==
    /\ [](pool_init = "init_static_shared_pool" => ~shared_memory.some)
    /\ [][ (pool_init = "init_static_shared_pool" /\ op' = "alloc_shared")
           => ~HasCall(ext_calls', "refill") ]_vars

----------------------------------------------------------------------------
(* Dirty pages *)

\* The ReadWrite regions of the catalog, in catalog order.
RwRegions == SelectSeq(regions, LAMBDA r : r.mem_type = "ReadWrite")

\* The ranges C24 has flush_dirty_pages walk, in order.
ExpectedWalks ==
    [i \in 1..Len(RwRegions) |-> PtCall("modify_range(flush_dirty_range)", RwRegions[i].range)]
    \o (IF payload_range.some
        THEN <<PtCall("modify_range(flush_dirty_range)", payload_range.range)>>
        ELSE << >>)

\* C24: the flush of a drop issues the barrier before any page-table walk, then
\* walks the ReadWrite regions in catalog order followed by the payload range and
\* nothing else; when it succeeds every page of those ranges is clean and no other
\* entry changed otherwise than from dirty to clean; the first walk that fails ends
\* it with FlushRegionFailed, the drop panics, and nothing is unshared or freed.
C24_FlushWalksWritable ==
    [][ op' = "drop"
        => LET walks == Tail(pt_calls') IN
           /\ pt_calls' # << >>
           /\ pt_calls'[1] = Barrier
           /\ \A i \in 1..Len(walks) : walks[i] # Barrier
           /\ Len(walks) <= Len(ExpectedWalks)
           /\ walks = Prefix(ExpectedWalks, Len(walks))
           /\ \A p \in Pages : pt'[p] = pt[p] \/ (Dirty(pt[p]) /\ pt'[p] = pt[p] \cup {"READ_ONLY"})
           /\ IF result'.tag = "Panic" /\ ~HasCall(ext_calls', "unshare_all_memory")
              THEN /\ result' = Panic("flush_dirty_pages().unwrap(): FlushRegionFailed")
                   /\ walks # << >>
                   /\ ~HasCall(ext_calls', "unshare") /\ ~HasCall(ext_calls', "dealloc")
                   /\ shared_memory' = shared_memory
                   /\ unshares' = unshares
                   /\ heap' = heap
              ELSE /\ walks = ExpectedWalks
                   /\ \A p \in WritablePages : ~Dirty(pt'[p]) ]_vars

\* A drop whose second walk failed: the dirty page of the ReadWrite region was
\* written back, the payload's is still dirty, a ReadOnly region was not walked,
\* and the memory the MemorySharer shared is still shared.
C24_Witness ==
    /\ op = "drop"
    /\ result.tag = "Panic"
    /\ Len(pt_calls) = 3
    /\ ext_calls[2] = <<"flush_dirty_pages", 1>>
    /\ \E i \in 1..Len(regions) : regions[i].mem_type = "ReadOnly"
    /\ payload_range.some
    /\ \E p \in PagesOf(payload_range.range) : Dirty(pt[p])
    /\ shared_memory.some
    /\ shared_memory.frames # << >>
    /\ \E a \in HeapAddrs : SharedNow(a)

\* A clean page with dirty-state tracking.
Clean(flags) == {"VALID", "DBM", "READ_ONLY"} \subseteq flags

\* C25: handle_permission_fault(addr) changes at most the leaf entry of the page
\* of addr, from clean to dirty, and nothing else: no other entry, neither catalog,
\* not total, nothing of the shared pool.  It returns Ok exactly when that entry was
\* clean with dirty-state tracking, and SetPteDirtyFailed with the table unchanged
\* otherwise.
C25_FaultDirtiesOnePage ==
    [][ op' = "handle_permission_fault"
        => LET page == page_4kb_of(arg'[1]) IN
           /\ \A q \in Pages \ {page} : pt'[q] = pt[q]
           /\ regions' = regions
           /\ mmio_regions' = mmio_regions
           /\ total' = total
           /\ guard_mapped' = guard_mapped
           /\ shared_pool' = shared_pool /\ shared_memory' = shared_memory
           /\ ext_calls' = << >>
           /\ IF Clean(pt[page])
              THEN /\ result' = OkUnit
                   /\ Dirty(pt'[page])
                   /\ pt'[page] = pt[page] \ {"READ_ONLY"}
              ELSE /\ result' = Err("SetPteDirtyFailed")
                   /\ pt' = pt ]_vars

\* A fault in the first page of a two-page ReadWrite region made that page dirty;
\* the second page of the region is still clean.
C25_Witness ==
    /\ op = "handle_permission_fault"
    /\ arg = <<\H1008>>
    /\ result = OkUnit
    /\ Dirty(pt[\H1000])
    /\ pt[\H2000] = DATA_DBM
    /\ \E i \in 1..Len(regions) : regions[i] = MemoryRegion(Range(\H1000, \H3000), "ReadWrite")

----------------------------------------------------------------------------
(* Refill *)

\* The bytes that are free in the pool.
FreeBytes(fl) == UNION {UNION {a..(a + 2 ^ o - 1) : a \in fl[o]} : o \in DOMAIN fl}

\* The call just made refilled the pool.
Refilled == op' = "alloc_shared" /\ HasCall(ext_calls', "refill")

\* The alignment and the size C26 gives the block of a refill for the hint of the
\* call just made: max(hint.align, granule), and the least multiple of it that is
\* not below hint.size.
RefillAlign == IF arg'[2] >= shared_memory.granule THEN arg'[2] ELSE shared_memory.granule

RefillSize == CHOOSE n \in 1..(arg'[1] + RefillAlign) :
                  n % RefillAlign = 0 /\ n >= arg'[1] /\ n - RefillAlign < arg'[1]

\* The base alloc_zeroed returned to the call just made (None for null).
RefillBase == Addrs(ext_calls', "alloc_zeroed")[1]

\* The granules of the block, in address order.
RefillGranules ==
    [i \in 1..(RefillSize \div shared_memory.granule) |->
        RefillBase + (i - 1) * shared_memory.granule]

\* The refill got its block, shared it and gave it to the pool.
RefillDone == Refilled /\ HasCall(ext_calls', "add_frame")

\* C26 as stated: a refill that completes shares exactly size/g granules of its
\* block, at base, base + g, ...
C26_AsStated ==
    [][ RefillDone => Addrs(ext_calls', "share") = RefillGranules ]_vars

\* C26, amended: a refill asks the heap once, for a block of size hint.size rounded
\* up to a multiple of max(hint.align, g) with that alignment; the size is not below
\* hint.size and a non-zero multiple of g.  With a sharing capability it shares the
\* size/g granules of the block in address order, without one it shares nothing.
\* When all are shared it appends the one entry (base, layout) to the MemorySharer
\* and gives exactly [base, base + size) to the pool; when a share call fails no
\* entry is appended and the pool gets nothing.
C26_RefillBlock ==
    [][ Refilled
        => /\ Len(Addrs(ext_calls', "alloc_zeroed")) = 1
           /\ RefillSize >= arg'[1] /\ RefillSize > 0 /\ RefillSize % shared_memory.granule = 0
           /\ RefillBase # None
              => LET block == Block(RefillBase, Layout(RefillSize, RefillAlign))
                     end == RefillBase + RefillSize
                     shared == Addrs(ext_calls', "share")
                     given == add_frame(shared_pool.free_list, RefillBase, end)
                 IN  /\ RefillBase % RefillAlign = 0
                     /\ block \notin heap
                     /\ heap' = heap \cup {block}
                     /\ shares' = Counted(shares, shared)
                     /\ IF HasCall(ext_calls', "add_frame")
                        THEN /\ shared = IF mem_sharer THEN RefillGranules ELSE << >>
                             /\ shared_memory'.frames = Append(shared_memory.frames, block)
                             /\ \A i \in Positions(ext_calls', "share") :
                                   \A j \in Positions(ext_calls', "add_frame") : i < j
                             /\ Addrs(ext_calls', "add_frame") = <<RefillBase>>
                             /\ FreeBytes(given) = FreeBytes(shared_pool.free_list) \cup RefillBase..(end - 1)
                             /\ shared_pool'.free_list =
                                   alloc_aligned(given, Layout(arg'[1], arg'[2])).free_list
                        ELSE /\ result'.tag = "Panic"
                             /\ mem_sharer
                             /\ shared # << >>
                             /\ shared = Prefix(RefillGranules, Len(shared))
                             /\ shared_memory' = shared_memory
                             /\ shared_pool' = shared_pool ]_vars

\* A refill with granule 2 for a hint of 3 bytes took the 4-byte block at 8, shared
\* its two granules and recorded it.
C26_Witness ==
    /\ mem_sharer
    /\ op = "alloc_shared"
    /\ arg = <<3, 1>>
    /\ result.tag = "Ok"
    /\ Addrs(ext_calls, "share") = <<8, 10>>
    /\ shared_memory.granule = 2
    /\ shared_memory.frames = << Block(8, Layout(4, 2)) >>
    /\ shares[8] = 1 /\ shares[10] = 1

\* C27: without a sharing capability no operation issues a share or an unshare
\* call, whatever the granule; a refill that completes still records its block and
\* gives it to the pool, and the drop of the MemorySharer still releases every
\* recorded block to the heap.
C27_NoSharingWithoutCapability ==
    /\ [](~mem_sharer
            => /\ \A a \in HeapAddrs : shares[a] = 0 /\ unshares[a] = 0
               /\ ~HasCall(ext_calls, "share")
               /\ ~HasCall(ext_calls, "unshare"))
    /\ [][ (~mem_sharer /\ RefillDone)
           => /\ Len(shared_memory'.frames) = Len(shared_memory.frames) + 1
              /\ shared_memory'.frames[Len(shared_memory'.frames)] \in heap' \ heap ]_vars
    /\ [][ (~mem_sharer /\ DropsSharer(op') /\ shared_memory.some /\ result'.tag # "Panic"
              /\ (op' \in {"unshare_all_memory", "drop"} \/ result'.tag = "Err"))
           => /\ heap' = heap \ {shared_memory.frames[i] : i \in 1..Len(shared_memory.frames)}
              /\ Len(Addrs(ext_calls', "dealloc")) = Len(shared_memory.frames)
              /\ dropped'.frames = << >> ]_vars

\* Without a sharing capability a MemorySharer that had recorded two blocks was
\* dropped: both went back to the heap, nothing was ever shared or unshared.
C27_Witness ==
    /\ ~mem_sharer
    /\ op = "unshare_all_memory"
    /\ result = OkUnit
    /\ Len(Addrs(ext_calls, "dealloc")) = 2
    /\ heap = {}
    /\ \A a \in HeapAddrs : shares[a] = 0 /\ unshares[a] = 0

\* What C28 says init_static_shared_pool does with the range r.
StaticPoolFromRange(r) ==
    LET region == MemoryRegion(r, "ReadWrite")
        c == check(region)
    IN  \/ /\ result'.tag = "Err"
           /\ result'.err = IF c # "Ok" THEN c ELSE "FailedToMap"
           /\ regions' = regions
           /\ shared_pool' = shared_pool
           /\ shared_memory' = shared_memory
        \/ /\ c = "Ok"
           /\ regions' = Append(regions, region)
           /\ IF shared_pool.set
              THEN result' = Err("SharedPoolSetFailure") /\ shared_pool' = shared_pool
              ELSE /\ result' = OkUnit
                   /\ shared_pool'.set
                   /\ FreeBytes(shared_pool'.free_list) = r.start..(r.end - 1)
                   /\ ~shared_memory'.some

\* C28 as stated: init_static_shared_pool(range) records the range as a ReadWrite
\* region through alloc_mut, under the checks of alloc_mut and in one catalog slot;
\* an error of alloc_mut is returned with the pool as it was; on success the free
\* memory of the pool is exactly the range and no MemorySharer is installed.
C28_AsStated ==
    [][ op' = "init_static_shared_pool" => StaticPoolFromRange(ArgRange(arg')) ]_vars

----------------------------------------------------------------------------
(* The catalogs only grow *)

IsPrefix(s, t) == Len(s) <= Len(t) /\ s = Prefix(t, Len(s))

AllocOps == {"alloc_range", "alloc_range_mut", "alloc", "alloc_mut"}

\* The range the call just made asked for: the range itself, or base..base + size.
Requested ==
    IF op' \in {"alloc_range", "alloc_range_mut"} THEN Range(arg'[1], arg'[2])
    ELSE Range(arg'[1], arg'[1] + arg'[2])

\* The kind of region the operation records.
KindOf(o) == IF o \in {"alloc_range", "alloc"} THEN "ReadOnly" ELSE "ReadWrite"

\* Over every operation each catalog before it is a prefix of the catalog after it.
CatalogsAppendOnly ==
    [][ IsPrefix(regions, regions') /\ IsPrefix(mmio_regions, mmio_regions') ]_vars

\* C29 as stated: both catalogs are append-only (no recorded region or MMIO range
\* is ever changed or removed), and a successful alloc* appends exactly one entry,
\* of the requested range and of the kind of the operation, and returns that range.
C29_AsStated ==
    /\ CatalogsAppendOnly
    /\ [][ (op' \in AllocOps /\ result'.tag = "Ok")
           => /\ regions' = Append(regions, MemoryRegion(Requested, KindOf(op')))
              /\ result' = Ok(Requested) ]_vars

----------------------------------------------------------------------------
(* Guard-unmap calls against guard-map calls *)

\* C30 as stated: with a guard capability, every guard-unmap call mmio_unmap_all
\* issues is for a page that is guard-mapped when the call is issued (guard-mapped
\* before the operation and not already unmapped by an earlier call of it), so a
\* page never gets more guard-unmap calls than guard-map calls, also when
\* mmio_unmap_all is called more than once.
C30_AsStated ==
    [][ (op' = "mmio_unmap_all" /\ mmio_guard)
        => \A i \in 1..Len(ext_calls') :
              /\ ext_calls'[i][1] = "mmio_guard_unmap"
              /\ ext_calls'[i][2] \in guard_mapped \ {ext_calls'[j][2] : j \in 1..(i - 1)} ]_vars

----------------------------------------------------------------------------
(* A failing MMIO fault *)

\* C31 as stated: when handle_mmio_fault returns an error (InvalidPte, a failed
\* guard-map call, FailedToMap) the page table and the set of guard-mapped pages
\* are as before the call, so the faulting page is not left guard-mapped without
\* being VALID in the page table.
C31_AsStated ==
    [][ (op' = "handle_mmio_fault" /\ result'.tag = "Err")
        => LET page == page_4kb_of(arg'[1]) IN
           /\ pt' = pt
           /\ guard_mapped' = guard_mapped
           /\ page \in guard_mapped' => "VALID" \in pt'[page] ]_vars

----------------------------------------------------------------------------
(* One guard-map call per page *)

\* The pages the call just made issued a guard-map call for.
GuardMapCalled ==
    {ext_calls'[i][2] : i \in {j \in 1..Len(ext_calls') : ext_calls'[j][1] = "mmio_guard_map"}}

\* C32 as stated: when no page is registered a second time, handle_mmio_fault issues
\* a guard-map call only for a page that is not guard-mapped yet (at most one per
\* page), and a fault on a page that an earlier fault made VALID returns InvalidPte
\* and issues no guard-map call.
C32_AsStated ==
    [][ op' = "handle_mmio_fault"
        => LET page == page_4kb_of(arg'[1]) IN
           /\ GuardMapCalled \cap guard_mapped = {}
           /\ (page \in guard_mapped /\ "VALID" \in pt[page])
                 => result' = Err("InvalidPte") /\ ext_calls' = << >> ]_vars

----------------------------------------------------------------------------
(* Regular regions apart from MMIO ranges *)

\* total and mmio_range do not overlap, each catalog entry lies in its governing
\* range, and no recorded region overlaps a recorded MMIO range.
RegionsApartFromMmio ==
    /\ ~overlaps(total, mmio_range)
    /\ RegionsWithinTotal
    /\ MmioWithinMmioRange
    /\ \A i \in 1..Len(regions) : \A j \in 1..Len(mmio_regions) :
          ~overlaps(regions[i].range, mmio_regions[j])

\* C33: in every state reachable from MemoryTracker::new no recorded region overlaps
\* a recorded MMIO range: total and mmio_range are disjoint from construction on,
\* no operation moves the base of total or raises its end, and each catalog entry
\* lies in its governing range.
C33_RegionsApartFromMmio ==
    /\ []RegionsApartFromMmio
    /\ [][ total'.start = total.start /\ total'.end <= total.end
           /\ mmio_range' = mmio_range ]_vars

\* Regions and MMIO ranges recorded next to each other, total shrunk to the regions,
\* and a request into the other space just refused.
C33_Witness ==
    /\ total = Range(\H1000, \H3000)
    /\ mmio_range = Range(\H4000, \H5000)
    /\ Len(regions) >= 2
    /\ mmio_regions = << Range(\H4000, \H5000) >>
    /\ op = "alloc_range" /\ arg = <<\H4000, \H5000>> /\ result = Err("OutOfRange")

----------------------------------------------------------------------------
(* Precedence of the validation errors *)

\* The validation error of a candidate r against a governing range and the recorded
\* ranges rs: OutOfRange before Overlaps before Full.
Precedence(r, governing, rs) ==
    IF ~is_within(r, governing) THEN "OutOfRange"
    ELSE IF \E i \in 1..Len(rs) : overlaps(r, rs[i]) THEN "Overlaps"
    ELSE IF Len(rs) = 5 THEN "Full"
    ELSE "None"

RegionRanges == [i \in 1..Len(regions) |-> regions[i].range]

\* C34: alloc_range / alloc_range_mut and map_mmio_range return OutOfRange in
\* preference to Overlaps and Overlaps in preference to Full, also when the catalog
\* is full, and a validation error is returned before any page-table operation is
\* issued, leaving page table and catalogs as they were.
C34_ErrorPrecedence ==
    [][ op' \in {"alloc_range", "alloc_range_mut", "map_mmio_range"}
        => LET expected == IF op' = "map_mmio_range"
                           THEN Precedence(ArgRange(arg'), mmio_range, mmio_regions)
                           ELSE Precedence(ArgRange(arg'), total, RegionRanges)
           IN  /\ expected # "None" => result' = Err(expected)
               /\ expected = "None" => result'.err \notin {"OutOfRange", "Overlaps", "Full"}
               /\ result'.err \in {"OutOfRange", "Overlaps", "Full"}
                     => /\ pt_calls' = << >>
                        /\ pt' = pt
                        /\ regions' = regions
                        /\ mmio_regions' = mmio_regions ]_vars

\* With five regions recorded, a candidate that leaves total and overlaps a
\* recorded region was refused as OutOfRange.
C34_Witness ==
    /\ Len(regions) = 5
    /\ op = "alloc_range"
    /\ arg = <<\H4C00, \H5400>>
    /\ \E i \in 1..5 : overlaps(ArgRange(arg), regions[i].range)
    /\ ~is_within(ArgRange(arg), total)
    /\ result = Err("OutOfRange")

----------------------------------------------------------------------------
(* Lock order of the shared pool *)

\* Each function holds the locks the claim names for it: alloc_shared the pool
\* lock and, inside it, the Sharer lock; dealloc_shared the pool lock alone;
\* init_dynamic_shared_pool and unshare_all_memory the Sharer lock alone.
LockDiscipline ==
    \A c \in Ctx :
       /\ pc[c] \in {"a_alloc", "a_lock_sharer", "d_dealloc"} => pool_lock = c /\ sharer_lock # c
       /\ pc[c] \in {"a_refill", "a_none"} => pool_lock = c /\ sharer_lock = c
       /\ pc[c] = "u_drop" => sharer_lock = c /\ pool_lock # c
       /\ pc[c] \in {"idle", "abort", "a_lock_pool", "d_lock_pool", "i_lock", "i_drop",
                     "i_set", "u_lock"} => pool_lock # c /\ sharer_lock # c

\* The pool lock is never asked for by a context that holds the Sharer lock.
PoolBeforeSharer == \A c \in Ctx : Wanted(c) = "pool" => sharer_lock # c

\* No context spins on a lock whose holder spins on a lock too.
NoDeadlock == \A c \in Ctx : Blocked(c) => ~Blocked(Holder(Wanted(c)))

\* No context refills through a Sharer that another context is dropping.
NoRefillDuringDrop ==
    \A c, d \in Ctx :
       (pc[c] = "a_refill" /\ pc[d] \in {"i_drop", "u_drop"}) => local[c] # local[d]

\* C35: the pool lock and the Sharer lock are always taken in the same order (pool,
\* then Sharer, by alloc_shared; the Sharer lock alone by init_dynamic_shared_pool
\* and unshare_all_memory; the pool lock alone by dealloc_shared), two contexts
\* running these functions never deadlock, and no refill runs while the Sharer it
\* refills through is being dropped.
C35_LockOrder ==
    /\ LockDiscipline
    /\ PoolBeforeSharer
    /\ NoDeadlock
    /\ NoRefillDuringDrop

\* One context refills through the second Sharer, holding both locks, while the
\* other spins on the Sharer lock in unshare_all_memory.
C35_Witness ==
    /\ pc[1] = "a_refill" /\ local[1] = 2 /\ sharer_slot = 2
    /\ pool_lock = 1 /\ sharer_lock = 1
    /\ pc[2] = "u_lock" /\ Blocked(2)

====
